---------------------------- MODULE Spec2Model ----------------------------
(***************************************************************************)
(* lem-in: vertex-disjoint path extraction (path.MultiPath, Edmonds-Karp   *)
(* on a node-split residual graph), the caller (main) and the pipelined    *)
(* ant scheduler (scheduler.Run).                                          *)
(*                                                                         *)
(* A room name is a number 0..n-1, and the lexicographic order of the      *)
(* names is the order of the numbers: comparing two room numbers is        *)
(* comparing the two names.  MultiPath's names list and idOf are built     *)
(* from whatever order the map g.Rooms is ranged over.                     *)
(***************************************************************************)
EXTENDS Integers, Sequences, FiniteSets, TLC

(***************************************************************************)
(* Bounds of the model.                                                    *)
(***************************************************************************)
MaxRooms == 4        \* rooms of the exhaustively enumerated graphs
MaxLinks == 5        \* links of the exhaustively enumerated graphs
MaxAnts == 4         \* ant counts 1..MaxAnts
MaxPathsArg == 1     \* MultiPath's maxPaths argument ranges over 0..MaxPathsArg
MaxPathCount == 3    \* paths of a path set handed to Run directly
MaxPathLen == 4      \* length, in links, of such a path
MaxPlanAnts == 2     \* ant counts for which free movement plans are explored
MaxOrderRooms == 3   \* graphs up to this size have g.Rooms ranged over in every order
MaxLines == 7        \* lines of an input file read line by line
MaxRemarks == 1      \* comment and unknown-command lines among them
MaxApiRooms == 3     \* room names 0..MaxApiRooms-1 handed to AddRoom and AddLink directly
MaxDeclLinks == 3    \* links whose declarations are tried in every order
MaxCalls == 5        \* AddRoom / AddLink calls made on one graph directly

VARIABLES
    pc,          \* position in main / Parse / MultiPath / Run
    input,       \* the lines of the input file (those read so far, while Parse runs)
    pst,         \* Parse: phase, pendingCommand, lines, res.Ants, res.Graph, error
    result,      \* main: res, the *Result Parse returned
    echo,        \* main: the lines printed before MultiPath is called
    g,           \* the input graph (model.Graph)
    maxPaths,    \* MultiPath's second argument
    names,       \* MultiPath: the room names, sorted; idOf is the position in it
    graph,       \* MultiPath: residual adjacency lists, node -> sequence of edges
    totalFlow,   \* MultiPath: totalFlow
    paths,       \* MultiPath: the published paths; then main's and Run's paths
    namePath,    \* MultiPath: room names of the path being traced
    cur,         \* MultiPath: split node the trace stands on
    ants,        \* Run: number of ants
    T,           \* Run: the balancer's turn count
    counts,      \* Run: ants per path
    waitQueues,  \* Run: per path, the ants still to be dispatched
    occupied,    \* Run: room -> ant id, 0 = free
    antsState,   \* Run: ant id -> [PathIdx, Pos]
    finished,    \* Run: ants that entered the end room
    moves,       \* Run: moves of the turn in progress
    out,         \* the move lines printed so far
    msg,         \* main's error line, "" when none was printed
    planPos,     \* free movement plan: ant -> room
    planTurn,    \* free movement plan: turns taken
    call,        \* model.Graph used directly: the last AddRoom / AddLink call
    firstRun     \* the program run twice: what the run on the first input produced

vars == <<pc, input, pst, result, echo, g, maxPaths, names, graph, totalFlow, paths, namePath, cur, ants, T,
          counts, waitQueues, occupied, antsState, finished, moves, out, msg,
          planPos, planTurn, call, firstRun>>

mpVars == <<names, graph, totalFlow, paths, namePath, cur>>
runVars == <<ants, T, counts, waitQueues, occupied, antsState, finished, moves, out>>
planVars == <<planPos, planTurn>>
parseVars == <<input, pst, result, echo>>
graphVars == <<call, firstRun>>

(***************************************************************************)
(* Small helpers.                                                          *)
(***************************************************************************)
Max(S) == CHOOSE x \in S : \A y \in S : y <= x
Min(S) == CHOOSE x \in S : \A y \in S : x <= y

RECURSIVE SetToSeqDesc(_)
SetToSeqDesc(S) == IF S = {} THEN <<>> ELSE <<Max(S)>> \o SetToSeqDesc(S \ {Max(S)})

RECURSIVE SumSeq(_)
SumSeq(s) == IF s = <<>> THEN 0 ELSE Head(s) + SumSeq(Tail(s))

Range(s) == {s[i] : i \in 1..Len(s)}

(***************************************************************************)
(* model.Graph.  Links[r] is r's neighbour list in insertion order, n is   *)
(* len(g.Rooms), Start and End are room names or NoRoom (nil).             *)
(***************************************************************************)
NoRoom == -1

Rooms(gr) == DOMAIN gr.Links
Linked(gr, a, b) == b \in Range(gr.Links[a])
Intermediate(gr) == Rooms(gr) \ {gr.Start, gr.End}

\* The graph AddRoom/AddLink build from n rooms and a set of links; each
\* neighbour list is given in descending name order, so that the sorting in
\* MultiPath has work to do.
MakeGraph(n, E, s, e) ==
    [n |-> n,
     Links |-> [r \in 0..(n-1) |-> SetToSeqDesc({x \in 0..(n-1) : {r, x} \in E})],
     Start |-> s, End |-> e]

AllLinks(n) == {{a, b} : a, b \in 0..(n-1)} \ {{a} : a \in 0..(n-1)}

\* Every graph of at most MaxRooms rooms and MaxLinks links; the start room
\* is the first or the last room in name order, the end room any other.
SmallGraphs ==
    UNION {{MakeGraph(n, E, s, e) :
                E \in {X \in SUBSET AllLinks(n) : Cardinality(X) <= MaxLinks},
                s \in {0, n-1}, e \in 0..(n-1)} : n \in 2..MaxRooms}

ValidGraph(gr) == gr.Start # gr.End

\* The orders in which a range over the map g.Rooms may yield the room
\* names: every order for a graph of at most MaxOrderRooms rooms; for a
\* larger graph the ascending order, the descending order and their rotations.
RECURSIVE Perms(_)
Perms(S) == IF S = {} THEN {<<>>} ELSE UNION {{<<x>> \o p : p \in Perms(S \ {x})} : x \in S}

Rotations(s) == {SubSeq(s, k, Len(s)) \o SubSeq(s, 1, k - 1) : k \in 1..Len(s)}

RoomOrders(gr) ==
    IF gr.n <= MaxOrderRooms THEN Perms(Rooms(gr))
    ELSE LET desc == SetToSeqDesc(Rooms(gr))
         IN  Rotations(desc) \cup Rotations([i \in 1..Len(desc) |-> desc[Len(desc) + 1 - i]])

(***************************************************************************)
(* model.NewGraph, AddRoom, AddLink.                                       *)
(***************************************************************************)
NewGraph == [n |-> 0, Links |-> <<>>, Start |-> NoRoom, End |-> NoRoom]

AddRoomOverwrites(gr, name) ==
    [gr EXCEPT !.n = Cardinality(Rooms(gr) \cup {name}),
               !.Links = [r \in Rooms(gr) \cup {name} |->
                             IF r = name THEN <<>> ELSE gr.Links[r]]]

\* AddRoom hands back the room of that name: the existing one, or a new one
AddRoom(gr, name) ==
    IF name \in Rooms(gr) THEN gr
    ELSE [gr EXCEPT !.n = @ + 1,
                    !.Links = [r \in Rooms(gr) \cup {name} |->
                                  IF r = name THEN <<>> ELSE gr.Links[r]]]

AddLinkNoDupCheck(gr, a, b) ==
    IF a \notin Rooms(gr) \/ b \notin Rooms(gr) \/ a = b
    THEN [ok |-> FALSE, graph |-> gr]
    ELSE [ok |-> TRUE,
          graph |-> [gr EXCEPT !.Links = [[@ EXCEPT ![a] = Append(@, b)]
                                              EXCEPT ![b] = Append(@, a)]]]

AddLinkNoSelfCheck(gr, a, b) ==
    IF a \notin Rooms(gr) \/ b \notin Rooms(gr)
    THEN [ok |-> FALSE, graph |-> gr]
    ELSE IF \E i \in 1..Len(gr.Links[a]) : gr.Links[a][i] = b
         THEN [ok |-> FALSE, graph |-> gr]
         ELSE [ok |-> TRUE,
               graph |-> [gr EXCEPT !.Links = [[@ EXCEPT ![a] = Append(@, b)]
                                                   EXCEPT ![b] = Append(@, a)]]]

AddLinkOneWay(gr, a, b) ==
    IF a \notin Rooms(gr) \/ b \notin Rooms(gr) \/ a = b
    THEN [ok |-> FALSE, graph |-> gr]
    ELSE IF \E i \in 1..Len(gr.Links[a]) : gr.Links[a][i] = b
         THEN [ok |-> FALSE, graph |-> gr]
         ELSE [ok |-> TRUE, graph |-> [gr EXCEPT !.Links = [@ EXCEPT ![a] = Append(@, b)]]]

\* AddLink: false for an unknown endpoint, a == b, or b already in a.Links
AddLink(gr, a, b) ==
    IF a \notin Rooms(gr) \/ b \notin Rooms(gr) \/ a = b
    THEN [ok |-> FALSE, graph |-> gr]
    ELSE IF \E i \in 1..Len(gr.Links[a]) : gr.Links[a][i] = b
         THEN [ok |-> FALSE, graph |-> gr]
         ELSE [ok |-> TRUE,
               graph |-> [gr EXCEPT !.Links = [[@ EXCEPT ![a] = Append(@, b)]
                                                   EXCEPT ![b] = Append(@, a)]]]

\* no earlier run of the program to compare with
NoFirst == [pc |-> "", g |-> NewGraph, maxPaths |-> 0, ants |-> 0, paths |-> <<>>, out |-> <<>>, msg |-> ""]

\* no call made yet on the graph used directly
NoCall == [op |-> "", a |-> NoRoom, b |-> NoRoom, room |-> NoRoom, ok |-> FALSE,
           before |-> NewGraph, seq |-> 0]

(***************************************************************************)
(* parser.Parse.  A line of the input is the token the parser's tests      *)
(* (line == "", the "#" and "##" prefixes, strconv.Atoi, roomLineRe,        *)
(* linkLineRe) read it as: kind k with the integer, the room name or the   *)
(* two link ends in a and b.                                               *)
(***************************************************************************)
Line(k, a, b) == [k |-> k, a |-> a, b |-> b]

EmptyLine == Line("", 0, 0)                \* the empty line
CommentLine == Line("#", 0, 0)             \* "#..." that is no "##..."
StartLine == Line("##start", 0, 0)
EndLine == Line("##end", 0, 0)
CommandLine == Line("##", 0, 0)            \* any other "##..." line
IntLine(v) == Line("int", v, 0)            \* a line strconv.Atoi accepts, value v
RoomLine(name) == Line("room", name, 0)    \* "<name> <x> <y>"
LinkLine(a, b) == Line("link", a, b)       \* "<a>-<b>"

errInvalid == "ERROR: invalid data format"

NewParse ==
    [phase |-> "ants", pendingCommand |-> "", lines |-> <<>>, Ants |-> 0,
     Graph |-> NewGraph, err |-> ""]

Fail(st, message) == [st EXCEPT !.err = message]

ParseMarkerNotKept(st, line) == [st EXCEPT !.pendingCommand = line.k]

\* lines 336-338: an "##start" or "##end" line
ParseMarker(st, line) ==
    [st EXCEPT !.pendingCommand = line.k, !.lines = Append(@, line)]

\* lines 357-380: a room line in the rooms phase
ParseRoom(st, line) ==
    IF line.a \in Rooms(st.Graph)
    THEN Fail(st, "ERROR: invalid data format, duplicate room")
    ELSE LET g1 == AddRoom(st.Graph, line.a) IN
         IF st.pendingCommand = "##start" /\ g1.Start # NoRoom
         THEN Fail(st, "ERROR: invalid data format, multiple start")
         ELSE IF st.pendingCommand = "##end" /\ g1.End # NoRoom
         THEN Fail(st, "ERROR: invalid data format, multiple end")
         ELSE [st EXCEPT
                 !.Graph = IF st.pendingCommand = "##start" THEN [g1 EXCEPT !.Start = line.a]
                           ELSE IF st.pendingCommand = "##end" THEN [g1 EXCEPT !.End = line.a]
                           ELSE g1,
                 !.pendingCommand = "",
                 !.lines = Append(@, line)]

\* lines 382-393: a link line
ParseLink(st, line) ==
    IF st.Graph.Start = NoRoom \/ st.Graph.End = NoRoom
    THEN Fail(st, "ERROR: invalid data format, missing start or end")
    ELSE LET r == AddLink(st.Graph, line.a, line.b) IN
         IF ~r.ok
         THEN Fail([st EXCEPT !.phase = "links"], "ERROR: invalid data format, invalid link")
         ELSE [st EXCEPT !.phase = "links", !.Graph = r.graph, !.lines = Append(@, line)]

ParseCommentClearsPending(st, line) == [st EXCEPT !.pendingCommand = ""]

\* lines 334-345: a "#" line that is no "##" line is skipped
ParseComment(st, line) == st

\* lines 327-398: one iteration of the scanner loop
ParseLine(st, line) ==
    IF line.k = "" THEN Fail(st, "ERROR: invalid data format, empty line")
    ELSE IF line.k \in {"#", "##", "##start", "##end"}
    THEN IF line.k \in {"##start", "##end"} THEN ParseMarker(st, line)
         ELSE IF line.k = "##" THEN [st EXCEPT !.lines = Append(@, line)]
         ELSE ParseComment(st, line)
    ELSE IF st.phase = "ants"
    THEN IF line.k # "int" \/ line.a <= 0 THEN Fail(st, errInvalid)
         ELSE [st EXCEPT !.Ants = line.a, !.lines = Append(@, line), !.phase = "rooms"]
    ELSE IF line.k = "room" /\ st.phase = "rooms" THEN ParseRoom(st, line)
    ELSE IF line.k = "link" THEN ParseLink(st, line)
    ELSE IF st.phase = "links" THEN Fail(st, "ERROR: invalid data format, expected link")
    ELSE Fail(st, "ERROR: invalid data format, unrecognized line")

\* lines 399-406: after the last line
ParseEnd(st) ==
    IF st.Ants = 0 \/ st.Graph.Start = NoRoom \/ st.Graph.End = NoRoom
    THEN Fail(st, "ERROR: invalid data format, missing essential data")
    ELSE st

RECURSIVE ParseLoop(_, _)
ParseLoop(st, text) ==
    IF text = <<>> THEN ParseEnd(st)
    ELSE LET s1 == ParseLine(st, Head(text))
         IN  IF s1.err # "" THEN s1 ELSE ParseLoop(s1, Tail(text))

Parse(text) == ParseLoop(NewParse, text)

\* the (nil, err) return
NilResult == [nil |-> TRUE, Ants |-> 0, Graph |-> NewGraph, OriginalLines |-> <<>>]

\* the (res, nil) return
Result(st) == [nil |-> FALSE, Ants |-> st.Ants, Graph |-> st.Graph, OriginalLines |-> st.lines]

(***************************************************************************)
(* sort.Strings on a list of room names.                                   *)
(***************************************************************************)
RECURSIVE InsertSorted(_, _)
InsertSorted(s, x) ==
    IF s = <<>> THEN <<x>>
    ELSE IF x < Head(s) THEN <<x>> \o s
         ELSE <<Head(s)>> \o InsertSorted(Tail(s), x)

SortStringsKeepsOrder(s) == s

RECURSIVE SortStrings(_)
SortStrings(s) == IF s = <<>> THEN <<>> ELSE InsertSorted(SortStrings(Tail(s)), Head(s))

(***************************************************************************)
(* MultiPath: node splitting and the residual graph.                       *)
(***************************************************************************)
INF == 1000000

NamesUnsorted(order) == order

\* names: the keys of g.Rooms in the order the range yields them, then sort.Strings
Names(order) == SortStrings(order)

idOf(name) == (CHOOSE i \in 1..Len(names) : names[i] = name) - 1

inIdx(name) == 2 * idOf(name)
outIdx(name) == 2 * idOf(name) + 1
roomNameOf(idx) == names[(idx \div 2) + 1]

addEdge(gr, u, v, c) ==
    LET g1 == [gr EXCEPT ![u] = Append(@, [to |-> v, rev |-> Len(gr[v]), cap |-> c, flow |-> 0])]
    IN  [g1 EXCEPT ![v] = Append(@, [to |-> u, rev |-> Len(g1[u]) - 1, cap |-> 0, flow |-> 0])]

RoomCapAllInf(gr, nm) == INF

\* capacity of v_in -> v_out
RoomCap(gr, nm) == IF nm = gr.Start \/ nm = gr.End THEN INF ELSE 1

LinkCapTwo == 1 + 1

\* capacity of u_out -> v_in
LinkCap == 1

RECURSIVE AddRoomEdges(_, _, _)
AddRoomEdges(gr, res, i) ==
    IF i > Len(names) THEN res
    ELSE LET nm == names[i]
             added == addEdge(res, inIdx(nm), outIdx(nm), RoomCap(gr, nm))
         \* the comparison is always false; it has TLC build the graph edge by edge
         IN  IF added = res THEN res ELSE AddRoomEdges(gr, added, i + 1)

RECURSIVE AddNeighbourEdges(_, _, _)
AddNeighbourEdges(res, nm, nbs) ==
    IF nbs = <<>> THEN res
    ELSE LET added == addEdge(res, outIdx(nm), inIdx(Head(nbs)), LinkCap)
         IN  IF added = res THEN res ELSE AddNeighbourEdges(added, nm, Tail(nbs))

RECURSIVE AddLinkEdges(_, _, _)
AddLinkEdges(gr, res, i) ==
    IF i > Len(names) THEN res
    ELSE LET nm == names[i]
         IN  AddLinkEdges(gr, AddNeighbourEdges(res, nm, SortStrings(gr.Links[nm])), i + 1)

BuildResidual(gr) ==
    AddLinkEdges(gr, AddRoomEdges(gr, [u \in 0..(2 * Len(names) - 1) |-> <<>>], 1), 1)

(***************************************************************************)
(* MultiPath: one bfs() call of the Edmonds-Karp loop.                     *)
(***************************************************************************)
\* residual capacity of a half-edge
Residual(e) == e.cap - e.flow

ResidualOpenOffByOne(e) == e.cap - e.flow > 1

\* bfs follows a half-edge iff e.cap-e.flow > 0
ResidualOpen(e) == e.cap - e.flow > 0

RECURSIVE BfsScan(_, _, _, _, _)
BfsScan(gr, u, ei, par, q) ==
    IF ei > Len(gr[u]) THEN [par |-> par, q |-> q]
    ELSE LET e == gr[u][ei] IN
         IF par[e.to].u = -1 /\ ResidualOpen(e)
         THEN BfsScan(gr, u, ei + 1, [par EXCEPT ![e.to] = [u |-> u, ei |-> ei - 1]], Append(q, e.to))
         ELSE BfsScan(gr, u, ei + 1, par, q)

RECURSIVE BfsLoop(_, _, _, _)
BfsLoop(gr, par, q, sink) ==
    IF q = <<>> THEN par
    ELSE LET u == Head(q) IN
         IF u = sink THEN par
         ELSE LET r == BfsScan(gr, u, 1, par, Tail(q)) IN BfsLoop(gr, r.par, r.q, sink)

BfsParents(gr, source, sink) ==
    BfsLoop(gr,
            [[v \in DOMAIN gr |-> [u |-> -1, ei |-> -1]] EXCEPT ![source] = [u |-> source, ei |-> -1]],
            <<source>>, sink)

RECURSIVE Bottleneck(_, _, _, _, _)
Bottleneck(gr, par, v, source, bneck) ==
    IF v = source THEN bneck
    ELSE LET pr == par[v]
             e == gr[pr.u][pr.ei + 1]
         IN  Bottleneck(gr, par, pr.u, source, IF Residual(e) < bneck THEN Residual(e) ELSE bneck)

RECURSIVE ApplyAugmentationForwardOnly(_, _, _, _, _)
ApplyAugmentationForwardOnly(gr, par, v, source, bneck) ==
    IF v = source THEN gr
    ELSE LET pr == par[v]
             g1 == [gr EXCEPT ![pr.u][pr.ei + 1].flow = @ + bneck]
         IN  ApplyAugmentationForwardOnly(g1, par, pr.u, source, bneck)

RECURSIVE ApplyAugmentationSkipsLastHop(_, _, _, _, _)
ApplyAugmentationSkipsLastHop(gr, par, v, source, bneck) ==
    IF v = source THEN gr
    ELSE LET pr == par[v]
             fe == gr[pr.u][pr.ei + 1]
             g1 == [gr EXCEPT ![pr.u][pr.ei + 1].flow = @ + bneck]
             g2 == [g1 EXCEPT ![fe.to][fe.rev + 1].flow = @ - bneck]
         IN  ApplyAugmentationSkipsLastHop(IF v = inIdx(g.End) THEN gr ELSE g2,
                                           par, pr.u, source, bneck)

RECURSIVE ApplyAugmentation(_, _, _, _, _)
ApplyAugmentation(gr, par, v, source, bneck) ==
    IF v = source THEN gr
    ELSE LET pr == par[v]
             fe == gr[pr.u][pr.ei + 1]
             g1 == [gr EXCEPT ![pr.u][pr.ei + 1].flow = @ + bneck]
             g2 == [g1 EXCEPT ![fe.to][fe.rev + 1].flow = @ - bneck]
         IN  ApplyAugmentation(g2, par, pr.u, source, bneck)

\* bfs(): [graph, pushed, par]; pushed = 0 when no augmenting path was found
bfs(gr, source, sink) ==
    LET par == BfsParents(gr, source, sink) IN
    IF par[sink].u = -1 THEN [graph |-> gr, pushed |-> 0, par |-> par]
    ELSE LET bneck == Bottleneck(gr, par, sink, source, INF) IN
         IF bneck <= 0 THEN [graph |-> gr, pushed |-> 0, par |-> par]
         ELSE [graph |-> ApplyAugmentation(gr, par, sink, source, bneck),
               pushed |-> bneck, par |-> par]

Source == outIdx(g.Start)
Sink == inIdx(g.End)

(***************************************************************************)
(* MultiPath: reconstruction of the paths from the final flow.             *)
(***************************************************************************)
outEdgeLess(a, b) == a.toName < b.toName \/ (a.toName = b.toName /\ a.ei < b.ei)

RECURSIVE InsertOutEdge(_, _)
InsertOutEdge(s, x) ==
    IF s = <<>> THEN <<x>>
    ELSE IF outEdgeLess(x, Head(s)) THEN <<x>> \o s
         ELSE <<Head(s)>> \o InsertOutEdge(Tail(s), x)

RECURSIVE SortOutEdges(_)
SortOutEdges(s) == IF s = <<>> THEN <<>> ELSE InsertOutEdge(SortOutEdges(Tail(s)), Head(s))

\* sortedOuts[u]: u's half-edges by destination room name, then by edge index
sortedOuts(gr, u) ==
    SortOutEdges([i \in 1..Len(gr[u]) |-> [ei |-> i - 1, toName |-> roomNameOf(gr[u][i].to)]])

RECURSIVE ConsumeScanKeepsFlow(_, _, _)
ConsumeScanKeepsFlow(gr, u, outs) ==
    IF outs = <<>> THEN [graph |-> gr, to |-> -1, ok |-> FALSE]
    ELSE LET e == gr[u][Head(outs).ei + 1]
         IN  IF e.flow > 0 THEN [graph |-> gr, to |-> e.to, ok |-> TRUE]
             ELSE ConsumeScanKeepsFlow(gr, u, Tail(outs))

RECURSIVE ConsumeScan(_, _, _)
ConsumeScan(gr, u, outs) ==
    IF outs = <<>> THEN [graph |-> gr, to |-> -1, ok |-> FALSE]
    ELSE LET ei == Head(outs).ei
             e == gr[u][ei + 1]
         IN  IF e.flow > 0
             THEN LET g1 == [gr EXCEPT ![u][ei + 1].flow = @ - 1]
                      g2 == [g1 EXCEPT ![e.to][e.rev + 1].flow = @ + 1]
                  IN  [graph |-> g2, to |-> e.to, ok |-> TRUE]
             ELSE ConsumeScan(gr, u, Tail(outs))

consumeFlowAlong(gr, u) == ConsumeScan(gr, u, sortedOuts(gr, u))

PathLengthOffByOne(rooms) == Len(rooms)

\* model.Path.Length as MultiPath sets it
PathLength(rooms) == Len(rooms) - 1

NewPath(rooms) == [Rooms |-> rooms, Length |-> PathLength(rooms)]

LoopStopsLate(mp, n) == mp > 0 /\ n > mp

LoopStopsUnguarded(mp, n) == n >= mp

\* the maxPaths cut-off of the augmenting loop and of the tracing loop
LoopStops(mp, n) == mp > 0 /\ n >= mp

(***************************************************************************)
(* MultiPath, step by step.                                                *)
(***************************************************************************)
\* lines 31-47: the guards and the name ordering; the range over the map
\* g.Rooms yields the names in any order
MultiPathNames ==
    /\ pc = "MultiPath"
    /\ IF g.Start = NoRoom \/ g.End = NoRoom \/ g.n = 0
       THEN /\ pc' = "returned"
            /\ names' = names
       ELSE /\ pc' = "build"
            /\ \E order \in RoomOrders(g) : names' = Names(order)
    /\ UNCHANGED <<g, maxPaths, graph, totalFlow, paths, namePath, cur, msg>>
    /\ UNCHANGED runVars
    /\ UNCHANGED planVars
    /\ UNCHANGED graphVars
    /\ UNCHANGED parseVars

\* lines 49-102: idOf, node splitting and the residual graph
MultiPathBuild ==
    /\ pc = "build"
    /\ pc' = "augment"
    /\ graph' = BuildResidual(g)
    /\ UNCHANGED <<g, maxPaths, names, totalFlow, paths, namePath, cur, msg>>
    /\ UNCHANGED runVars
    /\ UNCHANGED planVars
    /\ UNCHANGED graphVars
    /\ UNCHANGED parseVars

\* lines 171-184: one iteration of the Edmonds-Karp loop
MultiPathAugment ==
    /\ pc = "augment"
    /\ LET r == bfs(graph, Source, Sink)
           total == totalFlow + r.pushed
           leave == r.pushed = 0 \/ LoopStops(maxPaths, total)
       IN  /\ graph' = r.graph
           /\ totalFlow' = total
           /\ pc' = IF ~leave THEN "augment"
                    ELSE IF total = 0 THEN "returned" ELSE "trace"
    /\ UNCHANGED <<g, maxPaths, names, paths, namePath, cur, msg>>
    /\ UNCHANGED runVars
    /\ UNCHANGED planVars
    /\ UNCHANGED graphVars
    /\ UNCHANGED parseVars

\* lines 233-243: take one unit of flow out of the source, or return the paths
MultiPathTrace ==
    /\ pc = "trace"
    /\ LET r == consumeFlowAlong(graph, Source)
       IN  IF ~r.ok
           THEN /\ pc' = "returned"
                /\ UNCHANGED <<graph, namePath, cur>>
           ELSE /\ graph' = r.graph
                /\ namePath' = <<g.Start>>
                /\ cur' = r.to
                /\ pc' = IF r.to = Sink THEN "publish" ELSE "walk"
    /\ UNCHANGED <<g, maxPaths, names, totalFlow, paths, msg>>
    /\ UNCHANGED runVars
    /\ UNCHANGED planVars
    /\ UNCHANGED graphVars
    /\ UNCHANGED parseVars

\* lines 245-258: at v_in, record v and cross v_in -> v_out
MultiPathWalkRoom ==
    /\ pc = "walk"
    /\ LET vName == roomNameOf(cur)
           r == consumeFlowAlong(graph, cur)
       IN  /\ namePath' = IF vName # g.End THEN Append(namePath, vName) ELSE namePath
           /\ IF ~r.ok
              THEN /\ pc' = "publish"
                   /\ UNCHANGED <<graph, cur>>
              ELSE /\ graph' = r.graph
                   /\ cur' = r.to
                   /\ pc' = "walkOut"
    /\ UNCHANGED <<g, maxPaths, names, totalFlow, paths, msg>>
    /\ UNCHANGED runVars
    /\ UNCHANGED planVars
    /\ UNCHANGED graphVars
    /\ UNCHANGED parseVars

\* lines 260-266: at v_out, follow one link edge v_out -> w_in
MultiPathWalkLink ==
    /\ pc = "walkOut"
    /\ LET r == consumeFlowAlong(graph, cur)
       IN  IF ~r.ok
           THEN /\ pc' = "publish"
                /\ UNCHANGED <<graph, cur>>
           ELSE /\ graph' = r.graph
                /\ cur' = r.to
                /\ pc' = IF r.to = Sink THEN "publish" ELSE "walk"
    /\ UNCHANGED <<g, maxPaths, names, totalFlow, paths, namePath, msg>>
    /\ UNCHANGED runVars
    /\ UNCHANGED planVars
    /\ UNCHANGED graphVars
    /\ UNCHANGED parseVars

\* lines 268-281: append End, publish the path, maxPaths cut-off
MultiPathPublish ==
    /\ pc = "publish"
    /\ LET rooms == Append(namePath, g.End)
           ps == Append(paths, NewPath(rooms))
       IN  /\ paths' = ps
           /\ namePath' = rooms
           /\ pc' = IF LoopStops(maxPaths, Len(ps)) THEN "returned" ELSE "trace"
    /\ UNCHANGED <<g, maxPaths, names, graph, totalFlow, cur, msg>>
    /\ UNCHANGED runVars
    /\ UNCHANGED planVars
    /\ UNCHANGED graphVars
    /\ UNCHANGED parseVars

MultiPathNext ==
    \/ MultiPathNames
    \/ MultiPathBuild
    \/ MultiPathAugment
    \/ MultiPathTrace
    \/ MultiPathWalkRoom
    \/ MultiPathWalkLink
    \/ MultiPathPublish

(***************************************************************************)
(* Run: sorting the paths and the (L-1) balancer.                          *)
(***************************************************************************)
\* sort.Slice by Length: for at most 12 elements Go's sort is its insertion
\* sort, which keeps paths of equal Length in their given order.
RECURSIVE InsertPath(_, _)
InsertPath(s, x) ==
    IF s = <<>> THEN <<x>>
    ELSE IF x.Length < Head(s).Length THEN <<x>> \o s
         ELSE <<Head(s)>> \o InsertPath(Tail(s), x)

RECURSIVE SortPaths(_)
SortPaths(s) ==
    IF s = <<>> THEN <<>>
    ELSE InsertPath(SortPaths(SubSeq(s, 1, Len(s) - 1)), s[Len(s)])

Lens(ps) == [i \in 1..Len(ps) |-> ps[i].Length]

InitialTOffByOne(lens) == lens[1]

\* T := lens[0] - 1, at least 0
InitialT(lens) == IF lens[1] - 1 < 0 THEN 0 ELSE lens[1] - 1

RECURSIVE CapacityOffByOne(_, _)
CapacityOffByOne(lens, t) ==
    IF lens = <<>> THEN 0
    ELSE (IF t > Head(lens) THEN t - Head(lens) ELSE 0) + CapacityOffByOne(Tail(lens), t)

\* sum over the paths of max(0, T - (L-1))
RECURSIVE Capacity(_, _)
Capacity(lens, t) ==
    IF lens = <<>> THEN 0
    ELSE (IF t > Head(lens) - 1 THEN t - (Head(lens) - 1) ELSE 0) + Capacity(Tail(lens), t)

RECURSIVE FindTOneShort(_, _, _)
FindTOneShort(lens, t, n) ==
    IF Capacity(lens, t) >= n - 1 THEN t ELSE FindTOneShort(lens, t + 1, n)

RECURSIVE FindTStrict(_, _, _)
FindTStrict(lens, t, n) ==
    IF Capacity(lens, t) > n THEN t ELSE FindTStrict(lens, t + 1, n)

\* for { sum := ...; if sum >= ants { break }; T++ }
RECURSIVE FindT(_, _, _)
FindT(lens, t, n) == IF Capacity(lens, t) >= n THEN t ELSE FindT(lens, t + 1, n)

TakeUnclamped(t, L, remain) == IF t > L - 1 THEN t - (L - 1) ELSE 0

\* take := max(0, T - (L-1)), clamped to the ants that remain
Take(t, L, remain) ==
    LET take == IF t > L - 1 THEN t - (L - 1) ELSE 0
    IN  IF take > remain THEN remain ELSE take

RECURSIVE FirstPass(_, _, _, _)
FirstPass(lens, t, remain, cs) ==
    IF lens = <<>> THEN [counts |-> cs, remain |-> remain]
    ELSE LET take == Take(t, Head(lens), remain)
         IN  FirstPass(Tail(lens), t, remain - take, Append(cs, take))

RECURSIVE Leftovers(_, _, _)
Leftovers(cs, remain, i) ==
    IF i <= Len(cs) /\ remain > 0
    THEN Leftovers([cs EXCEPT ![i] = @ + 1], remain - 1, i + 1)
    ELSE cs

Balance(lens, t, n) ==
    LET fp == FirstPass(lens, t, n, <<>>) IN Leftovers(fp.counts, fp.remain, 1)

\* ant ids 1..ants handed out path by path
Assigned(cs) ==
    [i \in 1..Len(cs) |->
        [k \in 1..cs[i] |-> SumSeq(SubSeq(cs, 1, i - 1)) + k]]

(***************************************************************************)
(* Run: one turn.  st = [occupied, antsState, moves, finished, waitQueues] *)
(***************************************************************************)
Move(antID, room) == [ant |-> antID, room |-> room]

IsFree(occ, room, endName) == room = endName \/ occ[room] = 0

VacateNever(occ, room, startName, endName) == occ

Vacate(occ, room, startName, endName) ==
    IF room # startName /\ room # endName THEN [occ EXCEPT ![room] = 0] ELSE occ

OccupyAnyRoom(occ, room, startName, endName, antID) == [occ EXCEPT ![room] = antID]

Occupy(occ, room, startName, endName, antID) ==
    IF room # startName /\ room # endName THEN [occ EXCEPT ![room] = antID] ELSE occ

PosAfterMoveStuck(pos) == pos

\* as.Pos++
PosAfterMove(pos) == pos + 1

AdvanceOrderFrontToBack(L) == [i \in 1..L |-> i - 1]

\* for pos := p.Length - 1; pos >= 0; pos--
AdvanceOrder(L) == [i \in 1..L |-> L - i]

AdvanceAnt(st, p, antID, startName, endName) ==
    LET as == st.antsState[antID]
        curRoom == p.Rooms[as.Pos + 1]
        nextRoom == p.Rooms[as.Pos + 2]
    IN  IF IsFree(st.occupied, nextRoom, endName)
        THEN [st EXCEPT
                !.occupied = Occupy(Vacate(@, curRoom, startName, endName),
                                    nextRoom, startName, endName, antID),
                !.antsState = [@ EXCEPT ![antID].Pos = PosAfterMove(@)],
                !.moves = Append(@, Move(antID, nextRoom)),
                !.finished = IF nextRoom = endName THEN @ + 1 ELSE @]
        ELSE st

RECURSIVE AdvancePath(_, _, _, _, _, _)
AdvancePath(st, p, order, posToAnt, startName, endName) ==
    IF order = <<>> THEN st
    ELSE IF Head(order) \notin DOMAIN posToAnt
         THEN AdvancePath(st, p, Tail(order), posToAnt, startName, endName)
         ELSE AdvancePath(AdvanceAnt(st, p, posToAnt[Head(order)], startName, endName),
                          p, Tail(order), posToAnt, startName, endName)

\* The positions of path pi that the loop reads and that hold an ant.
HeldPositions(as, pi, L) ==
    {pos \in 0..(L - 1) : \E a \in DOMAIN as : as[a].PathIdx = pi /\ as[a].Pos > 0 /\ as[a].Pos = pos}

\* posToAnt, restricted to the positions the loop reads: ranging over the map
\* antsState in any order leaves at each position any one of the ants there.
PosToAntChoices(as, pi, L) ==
    {f \in [HeldPositions(as, pi, L) -> DOMAIN as] :
        \A pos \in DOMAIN f : as[f[pos]].PathIdx = pi /\ as[f[pos]].Pos = pos}

RECURSIVE AdvanceAll(_, _, _, _, _, _)
AdvanceAll(st, ps, pi, pick, startName, endName) ==
    IF pi > Len(ps) THEN st
    ELSE AdvanceAll(AdvancePath(st, ps[pi], AdvanceOrder(ps[pi].Length), pick[pi],
                                startName, endName),
                    ps, pi + 1, pick, startName, endName)

DispatchOneLifo(st, p, pi, startName, endName) ==
    IF st.waitQueues[pi] = <<>> THEN st
    ELSE LET q == st.waitQueues[pi]
             antID == q[Len(q)]
             rest == SubSeq(q, 1, Len(q) - 1)
         IN
         IF Len(p.Rooms) = 2
         THEN [st EXCEPT !.waitQueues[pi] = rest,
                         !.moves = Append(@, Move(antID, endName)),
                         !.finished = @ + 1]
         ELSE LET first == p.Rooms[2] IN
              IF IsFree(st.occupied, first, endName)
              THEN [st EXCEPT
                      !.waitQueues[pi] = rest,
                      !.antsState = [a \in DOMAIN @ \cup {antID} |->
                                        IF a = antID THEN [PathIdx |-> pi, Pos |-> 1] ELSE @[a]],
                      !.occupied = Occupy(@, first, startName, endName, antID),
                      !.moves = Append(@, Move(antID, first)),
                      !.finished = IF first = endName THEN @ + 1 ELSE @]
              ELSE st

DispatchOne(st, p, pi, startName, endName) ==
    IF st.waitQueues[pi] = <<>> THEN st
    ELSE LET antID == Head(st.waitQueues[pi]) IN
         IF Len(p.Rooms) = 2
         THEN [st EXCEPT !.waitQueues[pi] = Tail(@),
                         !.moves = Append(@, Move(antID, endName)),
                         !.finished = @ + 1]
         ELSE LET first == p.Rooms[2] IN
              IF IsFree(st.occupied, first, endName)
              THEN [st EXCEPT
                      !.waitQueues[pi] = Tail(@),
                      !.antsState = [a \in DOMAIN @ \cup {antID} |->
                                        IF a = antID THEN [PathIdx |-> pi, Pos |-> 1] ELSE @[a]],
                      !.occupied = Occupy(@, first, startName, endName, antID),
                      !.moves = Append(@, Move(antID, first)),
                      !.finished = IF first = endName THEN @ + 1 ELSE @]
              ELSE st

RECURSIVE DispatchAll(_, _, _, _, _)
DispatchAll(st, ps, pi, startName, endName) ==
    IF pi > Len(ps) THEN st
    ELSE DispatchAll(DispatchOne(st, ps[pi], pi, startName, endName),
                     ps, pi + 1, startName, endName)

TurnState == [occupied |-> occupied, antsState |-> antsState, moves |-> moves,
              finished |-> finished, waitQueues |-> waitQueues]

NoAnts == [a \in {} |-> [PathIdx |-> 0, Pos |-> 0]]

(***************************************************************************)
(* main, after parsing: MultiPath(res.Graph, 0), then the error line or    *)
(* Run(res.Ants, paths, res.Graph).                                        *)
(***************************************************************************)
NoPathMessage == "ERROR: invalid data format, no path found"

\* main.go line 17: res, err := parser.ParseFile(...)
MainParseFile ==
    /\ pc = "main"
    /\ LET st == Parse(input)
       IN  /\ pst' = st
           /\ result' = IF st.err # "" THEN NilResult ELSE Result(st)
           /\ pc' = IF st.err # "" THEN "parseError" ELSE "parsed"
    /\ UNCHANGED <<input, echo, g, maxPaths, msg>>
    /\ UNCHANGED mpVars
    /\ UNCHANGED runVars
    /\ UNCHANGED planVars
    /\ UNCHANGED graphVars

\* main.go lines 18-21: print the error and exit
MainParseError ==
    /\ pc = "parseError"
    /\ msg' = pst.err
    /\ pc' = "exit"
    /\ UNCHANGED <<g, maxPaths>>
    /\ UNCHANGED parseVars
    /\ UNCHANGED mpVars
    /\ UNCHANGED runVars
    /\ UNCHANGED planVars
    /\ UNCHANGED graphVars

\* main.go lines 23-30: echo res.OriginalLines and a blank line, then call
\* MultiPath(res.Graph, 0)
MainEcho ==
    /\ pc = "parsed"
    /\ echo' = result.OriginalLines \o <<EmptyLine>>
    /\ g' = result.Graph
    /\ maxPaths' = 0
    /\ pc' = "MultiPath"
    /\ UNCHANGED <<input, pst, result, msg>>
    /\ UNCHANGED mpVars
    /\ UNCHANGED runVars
    /\ UNCHANGED planVars
    /\ UNCHANGED graphVars

\* res.Ants: what Parse read, or any count the parser accepts when the
\* input text is not part of the run
ResAnts == IF result.nil THEN 1..MaxAnts ELSE {result.Ants}

\* main.go lines 30-38
MainAfterMultiPath ==
    /\ pc = "returned"
    /\ maxPaths = 0
    /\ IF Len(paths) = 0
       THEN /\ msg' = NoPathMessage
            /\ pc' = "exit"
            /\ ants' = ants
       ELSE /\ msg' = msg
            /\ pc' = "Run"
            /\ ants' \in ResAnts
    /\ UNCHANGED <<g, maxPaths>>
    /\ UNCHANGED mpVars
    /\ UNCHANGED <<T, counts, waitQueues, occupied, antsState, finished, moves, out>>
    /\ UNCHANGED planVars
    /\ UNCHANGED graphVars
    /\ UNCHANGED parseVars

(***************************************************************************)
(* Run, step by step.                                                      *)
(***************************************************************************)
\* scheduler lines 459-549: guard, sort, balancer, queues, empty state
RunStart ==
    /\ pc = "Run"
    /\ IF ants <= 0 \/ Len(paths) = 0
       THEN /\ pc' = "done"
            /\ UNCHANGED <<paths, T, counts, waitQueues, occupied, antsState, finished>>
       ELSE LET ps == SortPaths(paths)
                lens == Lens(ps)
                t == FindT(lens, InitialT(lens), ants)
                cs == Balance(lens, t, ants)
            IN  /\ paths' = ps
                /\ T' = t
                /\ counts' = cs
                /\ waitQueues' = Assigned(cs)
                /\ occupied' = [r \in Rooms(g) |-> 0]
                /\ antsState' = NoAnts
                /\ finished' = 0
                /\ pc' = IF 0 < ants THEN "turn" ELSE "done"
    /\ UNCHANGED <<g, maxPaths, names, graph, totalFlow, namePath, cur, ants, moves, out, msg>>
    /\ UNCHANGED planVars
    /\ UNCHANGED graphVars
    /\ UNCHANGED parseVars

\* scheduler lines 552-587: phase 1, in-flight ants advance
TurnAdvance ==
    /\ pc = "turn"
    /\ \E pick \in [1..Len(paths) -> UNION {PosToAntChoices(antsState, i, paths[i].Length) : i \in 1..Len(paths)}] :
         /\ \A i \in 1..Len(paths) : pick[i] \in PosToAntChoices(antsState, i, paths[i].Length)
         /\ LET st == AdvanceAll([TurnState EXCEPT !.moves = <<>>], paths, 1, pick, g.Start, g.End)
            IN  /\ occupied' = st.occupied
                /\ antsState' = st.antsState
                /\ moves' = st.moves
                /\ finished' = st.finished
    /\ pc' = "dispatch"
    /\ UNCHANGED <<g, maxPaths, ants, T, counts, waitQueues, out, msg>>
    /\ UNCHANGED mpVars
    /\ UNCHANGED planVars
    /\ UNCHANGED graphVars
    /\ UNCHANGED parseVars

\* scheduler lines 589-614: phase 2, one new ant per path
TurnDispatch ==
    /\ pc = "dispatch"
    /\ LET st == DispatchAll(TurnState, paths, 1, g.Start, g.End)
       IN  /\ occupied' = st.occupied
           /\ antsState' = st.antsState
           /\ moves' = st.moves
           /\ finished' = st.finished
           /\ waitQueues' = st.waitQueues
    /\ pc' = "emit"
    /\ UNCHANGED <<g, maxPaths, ants, T, counts, out, msg>>
    /\ UNCHANGED mpVars
    /\ UNCHANGED planVars
    /\ UNCHANGED graphVars
    /\ UNCHANGED parseVars

\* scheduler lines 616-621 and the loop test of line 551
TurnEmit ==
    /\ pc = "emit"
    /\ IF Len(moves) > 0
       THEN /\ out' = Append(out, moves)
            /\ pc' = IF finished < ants THEN "turn" ELSE "done"
       ELSE /\ out' = out
            /\ pc' = "done"
    /\ UNCHANGED <<g, maxPaths, ants, T, counts, waitQueues, occupied, antsState,
                   finished, moves, msg>>
    /\ UNCHANGED mpVars
    /\ UNCHANGED planVars
    /\ UNCHANGED graphVars
    /\ UNCHANGED parseVars

RunNext ==
    \/ RunStart
    \/ TurnAdvance
    \/ TurnDispatch
    \/ TurnEmit

(***************************************************************************)
(* Inputs.                                                                 *)
(***************************************************************************)
\* start-a-b-end with the detours start-c1-c2-b and a-d1-d2-end
\* (a=0 b=1 c1=2 c2=3 d1=4 d2=5 end=6 start=7)
DetourGraph ==
    MakeGraph(8, {{7,0}, {0,1}, {1,6}, {7,2}, {2,3}, {3,1}, {0,4}, {4,5}, {5,6}}, 7, 6)

\* start-a-b-end with start-c-b and a-d-end (a=0 b=1 c=2 d=3 end=4 start=5)
CrossGraph ==
    MakeGraph(6, {{5,0}, {0,1}, {1,4}, {5,2}, {2,1}, {0,3}, {3,4}}, 5, 4)

\* start-x-a, start-a, a-end, a-b-end (a=0 b=1 end=2 start=3 x=4)
FunnelGraph ==
    MakeGraph(5, {{3,0}, {3,4}, {4,0}, {0,2}, {0,1}, {1,2}}, 3, 2)

NamedGraphs == {DetourGraph, CrossGraph, FunnelGraph}

\* start-x-a-b-c-end, the only shortest route, with the longer routes
\* start-z1-z2-z3-z4-c and x-y1-y2-y3-y4-end: the second augmenting path
\* enters c from z4, undoes b->c, follows the link b->a, undoes x->a and
\* leaves x for y1 (a=0 b=1 c=2 x=3 y1..y4=4..7 z1..z4=8..11 end=12 start=13)
EddyGraph ==
    MakeGraph(14, {{13,3}, {3,0}, {0,1}, {1,2}, {2,12},
                   {13,8}, {8,9}, {9,10}, {10,11}, {11,2},
                   {3,4}, {4,5}, {5,6}, {6,7}, {7,12}}, 13, 12)

Graphs == {gr \in SmallGraphs \cup NamedGraphs : ValidGraph(gr)}

InitRest ==
    /\ pst = NewParse
    /\ result = NilResult
    /\ echo = <<>>
    /\ names = <<>>
    /\ graph = <<>>
    /\ totalFlow = 0
    /\ namePath = <<>>
    /\ cur = -1
    /\ T = 0
    /\ counts = <<>>
    /\ waitQueues = <<>>
    /\ occupied = <<>>
    /\ antsState = NoAnts
    /\ finished = 0
    /\ moves = <<>>
    /\ out = <<>>
    /\ msg = ""
    /\ planPos = <<>>
    /\ planTurn = 0
    /\ call = NoCall
    /\ firstRun = NoFirst

Init ==
    /\ pc = "MultiPath"
    /\ input = <<>>
    /\ g \in Graphs
    /\ maxPaths \in 0..MaxPathsArg
    /\ paths = <<>>
    /\ ants = 0
    /\ InitRest

Next == MultiPathNext \/ MainAfterMultiPath \/ RunNext

Spec == Init /\ [][Next]_vars

\* MultiPath(g, maxPaths) alone, from the call to the return, on the graphs
\* of Init and on EddyGraph
InitMultiPath ==
    /\ pc = "MultiPath"
    /\ input = <<>>
    /\ g \in Graphs \cup {EddyGraph}
    /\ maxPaths \in 0..MaxPathsArg
    /\ paths = <<>>
    /\ ants = 0
    /\ InitRest

SpecMultiPath == InitMultiPath /\ [][MultiPathNext]_vars

(***************************************************************************)
(* The program run on two inputs that declare the same rooms and links:    *)
(* the second input declares the links in another order, some of them      *)
(* with their endpoints swapped.  The order of the room lines does not     *)
(* reach the graph: g.Rooms is a map, ranged over in any order.            *)
(***************************************************************************)
LinksOf(gr) == {{a, b} : a \in Rooms(gr), b \in Rooms(gr)} \cap
               {l \in SUBSET Rooms(gr) : \E a \in l : \E b \in l : a # b /\ Linked(gr, a, b)}

LinkLess(x, y) == Min(x) < Min(y) \/ (Min(x) = Min(y) /\ Max(x) < Max(y))

RECURSIVE SortedLinks(_)
SortedLinks(E) ==
    IF E = {} THEN <<>>
    ELSE LET m == CHOOSE x \in E : \A y \in E \ {x} : LinkLess(x, y)
         IN  <<m>> \o SortedLinks(E \ {m})

Reversed(q) == [i \in 1..Len(q) |-> q[Len(q) + 1 - i]]

\* the orders in which the link lines may come: every order for at most
\* MaxDeclLinks links, else the sorted order, its reverse and their rotations
LinkOrders(E) ==
    IF Cardinality(E) <= MaxDeclLinks THEN Perms(E)
    ELSE Rotations(SortedLinks(E)) \cup Rotations(Reversed(SortedLinks(E)))

\* the link lines "a-b": no link, every link or every second link is written
\* with the larger name first
LinkLines(E) ==
    {[i \in 1..Len(q) |->
         IF i % k = 0 THEN <<Max(q[i]), Min(q[i])>> ELSE <<Min(q[i]), Max(q[i])>>] :
        q \in LinkOrders(E), k \in {1, 2, Cardinality(E) + 1}}

RECURSIVE AddRooms(_, _)
AddRooms(gr, rooms) ==
    IF rooms = <<>> THEN gr ELSE AddRooms(AddRoom(gr, Head(rooms)), Tail(rooms))

RECURSIVE AddLinks(_, _)
AddLinks(gr, lines) ==
    IF lines = <<>> THEN gr
    ELSE AddLinks(AddLink(gr, Head(lines)[1], Head(lines)[2]).graph, Tail(lines))

\* the graph Parse builds from the rooms of gr and the link lines
Declared(gr, lines) ==
    [AddLinks(AddRooms(NewGraph, SetToSeqDesc(Rooms(gr))), lines)
        EXCEPT !.Start = gr.Start, !.End = gr.End]

\* the program has stopped or MultiPath has returned: keep what it produced
\* and start over on a second input with the same rooms, links, start, end
\* and number of ants
Rerun ==
    /\ pc \in {"returned", "done", "exit"}
    /\ firstRun = NoFirst
    /\ firstRun' = [pc |-> pc, g |-> g, maxPaths |-> maxPaths, ants |-> ants,
                 paths |-> paths, out |-> out, msg |-> msg]
    /\ \E lines \in LinkLines(LinksOf(g)) :
          /\ g' = Declared(g, lines)
          /\ result' = [nil |-> ants = 0, Ants |-> ants, Graph |-> Declared(g, lines),
                        OriginalLines |-> <<>>]
    /\ pc' = "MultiPath"
    /\ paths' = <<>>
    /\ ants' = 0
    /\ names' = <<>>
    /\ graph' = <<>>
    /\ totalFlow' = 0
    /\ namePath' = <<>>
    /\ cur' = -1
    /\ T' = 0
    /\ counts' = <<>>
    /\ waitQueues' = <<>>
    /\ occupied' = <<>>
    /\ antsState' = NoAnts
    /\ finished' = 0
    /\ moves' = <<>>
    /\ out' = <<>>
    /\ msg' = ""
    /\ UNCHANGED <<input, pst, echo, maxPaths, call>>
    /\ UNCHANGED planVars

DiamondGraph == MakeGraph(4, {{3,0}, {3,1}, {0,2}, {1,2}}, 3, 2)

\* the small graphs whose link lines are tried in every order, and the
\* named graphs
OrderGraphs ==
    {gr \in Graphs : gr.n <= MaxOrderRooms /\ Cardinality(LinksOf(gr)) <= MaxDeclLinks}
        \cup NamedGraphs \cup {DiamondGraph}

InitOrder ==
    /\ pc = "MultiPath"
    /\ input = <<>>
    /\ g \in OrderGraphs
    /\ maxPaths \in 0..MaxPathsArg
    /\ paths = <<>>
    /\ ants = 0
    /\ InitRest

\* the second run is followed as far as the first was
NextOrder ==
    \/ pc # firstRun.pc /\ Next
    \/ Rerun

SpecOrder == InitOrder /\ [][NextOrder]_vars

(***************************************************************************)
(* Run called directly on a set of paths that share only start and end:   *)
(* path i has lens[i] links; start = 0, end = 1, the intermediate rooms    *)
(* are numbered from 2, path after path.  At most one path is the direct   *)
(* link start-end.                                                         *)
(***************************************************************************)
LenLists ==
    {l \in UNION {[1..k -> 1..MaxPathLen] : k \in 1..MaxPathCount} :
        Cardinality({i \in DOMAIN l : l[i] = 1}) <= 1}

PathOffset(lens, i) == 1 + SumSeq([j \in 1..(i - 1) |-> lens[j] - 1])

PathRooms(lens, i) ==
    [k \in 1..(lens[i] + 1) |->
        IF k = 1 THEN 0 ELSE IF k = lens[i] + 1 THEN 1 ELSE PathOffset(lens, i) + k - 1]

PathsOf(lens) == [i \in 1..Len(lens) |-> NewPath(PathRooms(lens, i))]

GraphOfPaths(ps) ==
    MakeGraph(2 + SumSeq([i \in 1..Len(ps) |-> Len(ps[i].Rooms) - 2]),
              UNION {{{ps[i].Rooms[k], ps[i].Rooms[k + 1]} : k \in 1..(Len(ps[i].Rooms) - 1)} :
                        i \in 1..Len(ps)},
              0, 1)

InitRun ==
    /\ pc = "Run"
    /\ input = <<>>
    /\ \E lens \in LenLists :
          /\ paths = PathsOf(lens)
          /\ g = GraphOfPaths(PathsOf(lens))
    /\ maxPaths = 0
    /\ ants \in 1..MaxAnts
    /\ InitRest

SpecRun == InitRun /\ [][RunNext]_vars

(***************************************************************************)
(* Parse reading an input file line by line: the file is any sequence of   *)
(* at most MaxLines lines over ParseLines; main then prints the error or   *)
(* echoes the lines Parse kept.                                            *)
(***************************************************************************)
ParseRoomNames == {0, 1}

ParseLines ==
    {EmptyLine, CommentLine, StartLine, EndLine, CommandLine, IntLine(0), IntLine(1)}
        \cup {RoomLine(r) : r \in ParseRoomNames}
        \cup {LinkLine(a, b) : a, b \in ParseRoomNames}

Remarks(text) == Cardinality({i \in 1..Len(text) : text[i].k \in {"#", "##"}})

\* lines 327-398: scanner.Scan() yields one more line
ParseScan ==
    /\ pc = "Parse"
    /\ Len(input) < MaxLines
    /\ \E line \in ParseLines :
          /\ Remarks(Append(input, line)) <= MaxRemarks
          /\ input' = Append(input, line)
          /\ pst' = ParseLine(pst, line)
    /\ pc' = IF pst'.err # "" THEN "parseError" ELSE "Parse"
    /\ UNCHANGED <<result, echo, g, maxPaths, msg>>
    /\ UNCHANGED mpVars
    /\ UNCHANGED runVars
    /\ UNCHANGED planVars
    /\ UNCHANGED graphVars

\* lines 399-406: scanner.Scan() reports the end of the file
ParseEOF ==
    /\ pc = "Parse"
    /\ pst' = ParseEnd(pst)
    /\ result' = IF pst'.err # "" THEN NilResult ELSE Result(pst')
    /\ pc' = IF pst'.err # "" THEN "parseError" ELSE "parsed"
    /\ UNCHANGED <<input, echo, g, maxPaths, msg>>
    /\ UNCHANGED mpVars
    /\ UNCHANGED runVars
    /\ UNCHANGED planVars
    /\ UNCHANGED graphVars

InitParse ==
    /\ pc = "Parse"
    /\ input = <<>>
    /\ g = NewGraph
    /\ maxPaths = 0
    /\ paths = <<>>
    /\ ants = 0
    /\ InitRest

NextParse == ParseScan \/ ParseEOF \/ MainParseError \/ MainEcho

SpecParse == InitParse /\ [][NextParse]_vars

(***************************************************************************)
(* model.Graph used directly: any sequence of at most MaxCalls AddRoom and *)
(* AddLink calls on a new graph, with room names 0..MaxApiRooms-1.  call   *)
(* records the last call: its arguments, what it returned (room: the name  *)
(* of the *Room AddRoom returned, NoRoom for nil; ok: AddLink's bool) and  *)
(* the graph it was made on.                                               *)
(***************************************************************************)
ApiNames == 0..(MaxApiRooms - 1)

\* r := g.AddRoom(name, x, y)
GraphAddRoom ==
    /\ pc = "Graph"
    /\ call.seq < MaxCalls
    /\ \E name \in ApiNames :
          /\ g' = AddRoom(g, name)
          /\ call' = [op |-> "AddRoom", a |-> name, b |-> NoRoom, room |-> name, ok |-> FALSE,
                      before |-> g, seq |-> call.seq + 1]
    /\ UNCHANGED <<pc, maxPaths, msg, firstRun>>
    /\ UNCHANGED parseVars
    /\ UNCHANGED mpVars
    /\ UNCHANGED runVars
    /\ UNCHANGED planVars

\* ok := g.AddLink(a, b)
GraphAddLink ==
    /\ pc = "Graph"
    /\ call.seq < MaxCalls
    /\ \E a, b \in ApiNames :
          LET r == AddLink(g, a, b) IN
          /\ g' = r.graph
          /\ call' = [op |-> "AddLink", a |-> a, b |-> b, room |-> NoRoom, ok |-> r.ok,
                      before |-> g, seq |-> call.seq + 1]
    /\ UNCHANGED <<pc, maxPaths, msg, firstRun>>
    /\ UNCHANGED parseVars
    /\ UNCHANGED mpVars
    /\ UNCHANGED runVars
    /\ UNCHANGED planVars

InitGraph ==
    /\ pc = "Graph"
    /\ input = <<>>
    /\ g = NewGraph
    /\ maxPaths = 0
    /\ paths = <<>>
    /\ ants = 0
    /\ InitRest

NextGraph == GraphAddRoom \/ GraphAddLink

SpecGraph == InitGraph /\ [][NextGraph]_vars

(***************************************************************************)
(* The whole program on given input files: main parses the file, echoes    *)
(* it, calls MultiPath(res.Graph, 0) and Run(res.Ants, paths, res.Graph).  *)
(* The room names of a file are numbered in their lexicographic order.     *)
(***************************************************************************)
\* S1: rooms start, end; link start-end (end=0 start=1)
InputS1(n) == <<IntLine(n), StartLine, RoomLine(1), EndLine, RoomLine(0), LinkLine(1, 0)>>

\* S2: rooms start, a, end; links start-a, a-end (a=0 end=1 start=2)
InputS2(n) ==
    <<IntLine(n), StartLine, RoomLine(2), RoomLine(0), EndLine, RoomLine(1),
      LinkLine(2, 0), LinkLine(0, 1)>>

\* S4: rooms start, a, b, end; links start-a, start-b, a-end, b-end, a-b
\* (a=0 b=1 end=2 start=3)
InputS4(n) ==
    <<IntLine(n), StartLine, RoomLine(3), RoomLine(0), RoomLine(1), EndLine, RoomLine(2),
      LinkLine(3, 0), LinkLine(3, 1), LinkLine(0, 2), LinkLine(1, 2), LinkLine(0, 1)>>

\* S5: rooms start, end; the link start-end twice (end=0 start=1)
InputS5(n) ==
    <<IntLine(n), StartLine, RoomLine(1), EndLine, RoomLine(0), LinkLine(1, 0), LinkLine(1, 0)>>

\* S6: rooms start, a, end; link start-a only (a=0 end=1 start=2)
InputS6(n) ==
    <<IntLine(n), StartLine, RoomLine(2), RoomLine(0), EndLine, RoomLine(1), LinkLine(2, 0)>>

\* S6 with a comment and an unknown command among its lines
InputS6Remarks(n) ==
    <<CommentLine, IntLine(n), StartLine, RoomLine(2), CommandLine, RoomLine(0), EndLine,
      RoomLine(1), CommentLine, LinkLine(2, 0)>>

ScenarioInputs ==
    UNION {{InputS1(n), InputS2(n), InputS4(n), InputS5(n), InputS6(n), InputS6Remarks(n)} :
              n \in 1..MaxAnts}

InitMain ==
    /\ pc = "main"
    /\ input \in ScenarioInputs
    /\ g = NewGraph
    /\ maxPaths = 0
    /\ paths = <<>>
    /\ ants = 0
    /\ InitRest

NextMain ==
    MainParseFile \/ MainParseError \/ MainEcho \/ MultiPathNext \/ MainAfterMultiPath \/ RunNext

SpecMain == InitMain /\ [][NextMain]_vars

(***************************************************************************)
(* A free movement plan for the same graph and ant count, explored after   *)
(* Run has finished: in one turn every ant stays or crosses one link, no   *)
(* link is crossed by two ants, ants leave neither the end room nor enter  *)
(* the start room, and at the end of the turn every intermediate room      *)
(* holds at most one ant.  Every such plan is a legal movement plan.       *)
(***************************************************************************)
LegalTurn(gr, from, to) ==
    /\ \A a \in DOMAIN from :
          \/ to[a] = from[a]
          \/ /\ Linked(gr, from[a], to[a])
             /\ from[a] # gr.End
             /\ to[a] # gr.Start
    /\ \A a, b \in DOMAIN from :
          (a # b /\ to[a] # from[a] /\ to[b] # from[b]) =>
              {from[a], to[a]} # {from[b], to[b]}
    /\ \A a, b \in DOMAIN from :
          (a # b /\ to[a] = to[b]) => to[a] \in {gr.Start, gr.End}

PlanStart ==
    /\ pc = "done"
    /\ finished = ants
    /\ ants <= MaxPlanAnts
    /\ pc' = "plan"
    /\ planPos' = [a \in 1..ants |-> g.Start]
    /\ planTurn' = 0
    /\ UNCHANGED <<g, maxPaths, msg>>
    /\ UNCHANGED mpVars
    /\ UNCHANGED runVars
    /\ UNCHANGED parseVars
    /\ UNCHANGED graphVars

PlanTurn ==
    /\ pc = "plan"
    /\ planTurn < Len(out)
    /\ \E a \in DOMAIN planPos : planPos[a] # g.End
    /\ \E to \in [DOMAIN planPos -> Rooms(g)] :
          /\ LegalTurn(g, planPos, to)
          /\ to # planPos
          /\ planPos' = to
    /\ planTurn' = planTurn + 1
    /\ UNCHANGED <<pc, g, maxPaths, msg>>
    /\ UNCHANGED mpVars
    /\ UNCHANGED runVars
    /\ UNCHANGED parseVars
    /\ UNCHANGED graphVars

PlanArrived == pc = "plan" /\ \A a \in DOMAIN planPos : planPos[a] = g.End

NextPlan == Next \/ PlanStart \/ PlanTurn

SpecPlan == Init /\ [][NextPlan]_vars

(***************************************************************************)
(* Independent reference computations used by the properties.              *)
(***************************************************************************)
Neighbours(gr, S) == {b \in Rooms(gr) : \E a \in S : Linked(gr, a, b)}

RECURSIVE ReachWithin(_, _, _)
\* the rooms of `allowed` reachable from the set S through rooms of `allowed`
ReachWithin(gr, S, allowed) ==
    LET N == S \cup (Neighbours(gr, S) \cap allowed)
    IN  IF N = S THEN S ELSE ReachWithin(gr, N, allowed)

Reachable(gr) == gr.End \in ReachWithin(gr, {gr.Start}, Rooms(gr))

\* some start->end path has exactly its intermediate rooms inside I
Connects(gr, I) ==
    \E a \in I : /\ Linked(gr, gr.Start, a)
                 /\ \E b \in ReachWithin(gr, {a}, I) : Linked(gr, b, gr.End)

RECURSIVE MaxPack(_, _)
\* the most start->end paths through disjoint sets of intermediate rooms of S
MaxPack(gr, S) ==
    LET opts == {I \in SUBSET S : I # {} /\ Connects(gr, I)}
    IN  IF opts = {} THEN 0 ELSE Max({1 + MaxPack(gr, S \ I) : I \in opts})

\* paths sharing no intermediate room share no link except start-end itself
MaxDisjointPaths(gr) ==
    (IF Linked(gr, gr.Start, gr.End) THEN 1 ELSE 0) + MaxPack(gr, Intermediate(gr))

PathLinks(p) == {{p.Rooms[k], p.Rooms[k + 1]} : k \in 1..(Len(p.Rooms) - 1)}

InMultiPath == pc \in {"MultiPath", "build", "augment", "trace", "walk", "walkOut", "publish"}
InRun == pc \in {"turn", "dispatch", "emit", "done"}
TurnBoundary == pc \in {"turn", "done"}

\* the room ant a stands in
RoomOf(a) == paths[antsState[a].PathIdx].Rooms[antsState[a].Pos + 1]

\* least T with sum over the paths of max(0, T - (L-1)) >= n
LeastT(lens, n) ==
    Min({t \in 0..(Max(Range(lens)) + n) :
            SumSeq([i \in 1..Len(lens) |-> Max({0, t - (lens[i] - 1)})]) >= n})

\* number of moves of ant a into room r printed so far
MovesInto(a, r) ==
    SumSeq([i \in 1..Len(out) |->
              Cardinality({k \in 1..Len(out[i]) : out[i][k] = Move(a, r)})])

(***************************************************************************)
(* Properties.                                                             *)
(***************************************************************************)

\* C1: the number of turn lines of MultiPath(g, 0) followed by Run is the
\* least number of turns of any legal movement plan: no plan that brings all
\* N ants from start to end takes fewer turns than Run printed lines.
C1_MinimumTurns == PlanArrived => planTurn >= Len(out)

\* C2: any two distinct paths MultiPath has published share no room other
\* than start and end.
C2_VertexDisjoint ==
    \A i, j \in 1..Len(paths) :
        i # j => (Range(paths[i].Rooms) \cap Range(paths[j].Rooms)) \subseteq {g.Start, g.End}

C2_Witness ==
    /\ pc = "returned"
    /\ Len(paths) >= 2
    /\ \A i \in 1..Len(paths) : Len(paths[i].Rooms) >= 3

\* C3: no undirected link lies on two published paths; in particular the
\* direct path [start, end] is published at most once.
C3_EdgeDisjoint ==
    \A i, j \in 1..Len(paths) :
        i # j => PathLinks(paths[i]) \cap PathLinks(paths[j]) = {}

C3_Witness ==
    /\ pc = "returned"
    /\ Len(paths) >= 2
    /\ \E i \in 1..Len(paths) : paths[i].Rooms = <<g.Start, g.End>>

\* C4: MultiPath(g, 0) returns as many paths as the largest set of
\* start->end paths pairwise disjoint in intermediate rooms and in links,
\* found by exhaustive search.
C4_Maximal ==
    (pc = "returned" /\ maxPaths = 0) => Len(paths) = MaxDisjointPaths(g)

C4_Witness ==
    /\ pc = "returned"
    /\ maxPaths = 0
    /\ g = CrossGraph
    /\ Len(paths) = 2

\* C5: every published path starts at start, ends at end, repeats no room,
\* steps only along links of the graph, and has Length = rooms - 1.
C5_WellFormedPath ==
    \A i \in 1..Len(paths) :
        LET p == paths[i] IN
        /\ Len(p.Rooms) >= 2
        /\ p.Rooms[1] = g.Start
        /\ p.Rooms[Len(p.Rooms)] = g.End
        /\ \A a, b \in 1..Len(p.Rooms) : a # b => p.Rooms[a] # p.Rooms[b]
        /\ \A k \in 1..(Len(p.Rooms) - 1) : Linked(g, p.Rooms[k], p.Rooms[k + 1])
        /\ p.Length = Len(p.Rooms) - 1

C5_Witness ==
    /\ pc = "returned"
    /\ \E i \in 1..Len(paths) : Len(paths[i].Rooms) >= 4

\* C6: MultiPath(g, 0) returns no path iff end is unreachable from start;
\* then main prints the no-path line and Run never starts.
C6_EmptyIffUnreachable ==
    /\ (maxPaths = 0 /\ ~InMultiPath) => (Len(paths) = 0 <=> ~Reachable(g))
    /\ (maxPaths = 0 /\ ~InMultiPath /\ ~Reachable(g)) =>
            /\ pc \in {"returned", "exit"}
            /\ out = <<>>
            /\ pc = "exit" => msg = NoPathMessage
    /\ msg # "" => ~Reachable(g)

C6_Witness ==
    /\ pc = "exit"
    /\ msg = NoPathMessage
    /\ g.Links[g.Start] # <<>>
    /\ g.Links[g.End] # <<>>

\* C7: at every turn boundary of Run no two ants stand in the same
\* intermediate room.
C7_RoomExclusive ==
    (InRun /\ TurnBoundary) =>
        \A a, b \in DOMAIN antsState :
            (a # b /\ RoomOf(a) = RoomOf(b)) => RoomOf(a) \in {g.Start, g.End}

C7_Witness ==
    /\ pc = "turn"
    /\ \E a, b \in DOMAIN antsState :
          /\ a # b
          /\ antsState[a].PathIdx = antsState[b].PathIdx
          /\ RoomOf(a) \notin {g.Start, g.End}
          /\ RoomOf(b) \notin {g.Start, g.End}

\* C8: Run takes at most sum(L_i - 1) + N turns and stops only with
\* finished = N, every ant having moved into the end room exactly once;
\* the no-moves break never ends the loop.
C8_TerminatesComplete ==
    LET bound == SumSeq([i \in 1..Len(paths) |-> paths[i].Length - 1]) + ants IN
    /\ InRun => Len(out) + (IF pc \in {"dispatch", "emit"} THEN 1 ELSE 0) =< bound
    /\ (pc = "emit" /\ finished < ants) => Len(moves) > 0
    /\ pc = "done" =>
          /\ finished = ants
          /\ \A a \in 1..ants : MovesInto(a, g.End) = 1

C8_Witness ==
    /\ pc = "done"
    /\ ants >= 3
    /\ Len(paths) >= 2
    /\ \E i \in 1..Len(paths) : paths[i].Length >= 3 /\ counts[i] >= 1

\* C9: the number of move lines Run prints is the least T with
\* sum_i max(0, T - (L_i - 1)) >= N.
C9_LinesEqualT ==
    pc = "done" => Len(out) = LeastT(Lens(paths), ants)

C9_Witness ==
    /\ pc = "done"
    /\ Len(paths) >= 2
    /\ \E i, j \in 1..Len(paths) : paths[i].Length # paths[j].Length /\ counts[i] >= 2 /\ counts[j] >= 1
    /\ Len(out) = T

\* C10: the balancer's counts are non-negative, sum to N, and every path
\* that gets ants completes by T: (L_i - 1) + x_i <= T.
C10_BalancerCounts ==
    InRun =>
        /\ Len(counts) = Len(paths)
        /\ \A i \in 1..Len(counts) : counts[i] >= 0
        /\ SumSeq(counts) = ants
        /\ \A i \in 1..Len(counts) : counts[i] > 0 => (paths[i].Length - 1) + counts[i] =< T

C10_Witness ==
    /\ InRun
    /\ Len(paths) >= 2
    /\ \E i \in 1..Len(counts) : counts[i] = 0
    /\ \E i \in 1..Len(counts) : counts[i] >= 2

\* the assignments of n ants to k paths
Assignments(k, n) == {x \in [1..k -> 0..n] : SumSeq(x) = n}

\* turn at which the last ant of assignment x arrives, over the paths it uses
Makespan(lens, x) == Max({0} \cup {(lens[i] - 1) + x[i] : i \in {j \in 1..Len(lens) : x[j] > 0}})

\* C11 as stated: the counts sum to N and EVERY path of the path set, the
\* paths without ants included, satisfies (L_i - 1) + x_i <= T.
C11_EveryPathWithinT ==
    InRun =>
        /\ SumSeq(counts) = ants
        /\ \A i \in 1..Len(counts) : (paths[i].Length - 1) + counts[i] =< T

\* C11 amended: the counts sum to N and no path gets more ants than its
\* share max(0, T - (L_i - 1)); a path without ants may be longer than T.
C11_CountsWithinShare ==
    InRun =>
        /\ SumSeq(counts) = ants
        /\ \A i \in 1..Len(counts) : counts[i] =< Max({0, T - (paths[i].Length - 1)})

C11_Witness ==
    /\ InRun
    /\ \E i \in 1..Len(counts) : counts[i] = 0 /\ paths[i].Length - 1 > T
    /\ \E i \in 1..Len(counts) : counts[i] >= 2

\* C12: the balancer's T is optimal for the path set: every assignment of
\* the N ants to the paths has a last arrival (L_i - 1) + x'_i, over the
\* paths it uses and so over all paths, of at least T.
C12_BalancerOptimal ==
    InRun =>
        \A x \in Assignments(Len(paths), ants) :
            /\ Makespan(Lens(paths), x) >= T
            /\ Max({(paths[i].Length - 1) + x[i] : i \in 1..Len(paths)}) >= T

C12_Witness ==
    /\ InRun
    /\ ants >= 3
    /\ \E i, j \in 1..Len(paths) : paths[i].Length # paths[j].Length
    /\ \E x \in Assignments(Len(paths), ants) : x # counts /\ Makespan(Lens(paths), x) = T
    /\ \E x \in Assignments(Len(paths), ants) : Makespan(Lens(paths), x) > T

\* the posToAnt maps a turn's phase 1 may build, one per path
TurnPicks ==
    {pick \in [1..Len(paths) -> UNION {PosToAntChoices(antsState, i, paths[i].Length) : i \in 1..Len(paths)}] :
        \A i \in 1..Len(paths) : pick[i] \in PosToAntChoices(antsState, i, paths[i].Length)}

\* the states phase 1 may leave, over every order of ranging over antsState
AdvanceResults ==
    {AdvanceAll([TurnState EXCEPT !.moves = <<>>], paths, 1, pick, g.Start, g.End) : pick \in TurnPicks}

\* C13: the output does not depend on the order in which the maps are
\* ranged over: every order of g.Rooms gives MultiPath the names list it
\* works with, and every order of antsState gives a turn the same moves,
\* in the same order, and the same positions.
C13_MapOrderIndependent ==
    /\ pc = "build" => \A order \in RoomOrders(g) : Names(order) = names
    /\ pc = "turn" => Cardinality(AdvanceResults) = 1

C13_Witness ==
    /\ pc = "turn"
    /\ Len(names) >= 4
    /\ \E a, b \in DOMAIN antsState :
          /\ a # b
          /\ antsState[a].PathIdx = antsState[b].PathIdx
          /\ antsState[a].Pos = paths[antsState[a].PathIdx].Length
          /\ antsState[b].Pos = paths[antsState[b].PathIdx].Length
    /\ \E a \in DOMAIN antsState : antsState[a].Pos < paths[antsState[a].PathIdx].Length

\* the input without its comment lines
RECURSIVE WithoutComments(_)
WithoutComments(text) ==
    IF text = <<>> THEN <<>>
    ELSE IF Head(text) = CommentLine THEN WithoutComments(Tail(text))
         ELSE <<Head(text)>> \o WithoutComments(Tail(text))

\* the program has stopped
Ended == pc \in {"exit", "done"}

\* C14 as stated: when no start->end path exists, as in scenario S6, the
\* whole output of the program is the no-path line: nothing is echoed and
\* no move is printed.
C14_OnlyNoPathLine ==
    (Ended /\ ~result.nil /\ ~Reachable(result.Graph)) =>
        /\ echo = <<>>
        /\ msg = NoPathMessage
        /\ out = <<>>

\* C14 amended: when no start->end path exists, the output is the echoed
\* input (its lines other than comments, in order), a blank line, and then
\* the no-path line; no move is printed.
C14_EchoThenNoPathLine ==
    (Ended /\ ~result.nil /\ ~Reachable(result.Graph)) =>
        /\ pc = "exit"
        /\ echo = WithoutComments(input) \o <<EmptyLine>>
        /\ msg = NoPathMessage
        /\ out = <<>>

C14_Witness ==
    /\ pc = "exit"
    /\ input = InputS6(1)
    /\ msg = NoPathMessage
    /\ Len(echo) = 8

\* C15 as stated: scenario S4 with N = 4: MultiPath returns 2 paths, the
\* balancer assigns (2, 2) with T = 3, and Run prints exactly 3 turn lines
\* of at most 2 moves each.
C15_ScenarioS4 ==
    input = InputS4(4) =>
        /\ pc \in {"returned", "Run"} => Len(paths) = 2
        /\ InRun => (counts = <<2, 2>> /\ T = 3)
        /\ \A i \in 1..Len(out) : Len(out[i]) =< 2
        /\ pc = "done" => Len(out) = 3

\* C15 amended: scenario S4 with N = 4: MultiPath returns 2 paths, the
\* balancer assigns (2, 2) with T = 3, and Run prints exactly 3 turn lines
\* of 2, 4 and 2 moves, so at most 4 moves each.
C15_ScenarioS4FourMoves ==
    input = InputS4(4) =>
        /\ pc \in {"returned", "Run"} => Len(paths) = 2
        /\ InRun => (counts = <<2, 2>> /\ T = 3)
        /\ \A i \in 1..Len(out) : Len(out[i]) =< 4
        /\ pc = "done" => [i \in 1..Len(out) |-> Len(out[i])] = <<2, 4, 2>>

C15_Witness ==
    /\ input = InputS4(4)
    /\ pc = "done"
    /\ Len(out) = 3
    /\ \E i \in 1..Len(out) : Len(out[i]) = 4

\* C16: scenario S2 with N = 2 (a=0 end=1): Run prints exactly the lines
\* "L1-a", "L1-end L2-a", "L2-end", in this order.
C16_ScenarioS2 ==
    input = InputS2(2) =>
        /\ \E k \in 0..3 :
              out = SubSeq(<< <<Move(1, 0)>>, <<Move(1, 1), Move(2, 0)>>, <<Move(2, 1)>> >>, 1, k)
        /\ pc = "done" => Len(out) = 3

C16_Witness ==
    /\ input = InputS2(2)
    /\ pc = "done"
    /\ out = << <<Move(1, 0)>>, <<Move(1, 1), Move(2, 0)>>, <<Move(2, 1)>> >>

Count(text, line) == Cardinality({i \in 1..Len(text) : text[i] = line})

HasEmptyLine(text) == \E i \in 1..Len(text) : text[i] = EmptyLine

DuplicateRoom(text) ==
    \E i, j \in 1..Len(text) :
        i < j /\ text[i].k = "room" /\ text[j].k = "room" /\ text[i].a = text[j].a

DuplicateLink(text) ==
    \E i, j \in 1..Len(text) :
        /\ i < j /\ text[i].k = "link" /\ text[j].k = "link"
        /\ {text[i].a, text[i].b} = {text[j].a, text[j].b}

SelfLink(text) == \E i \in 1..Len(text) : text[i].k = "link" /\ text[i].a = text[i].b

\* no marker line of this kind has a next room line that no other marker
\* line comes before
NotDesignated(text, marker) ==
    ~\E i, j \in 1..Len(text) :
        /\ i < j /\ text[i] = marker /\ text[j].k = "room"
        /\ \A m \in (i + 1)..(j - 1) : text[m].k \notin {"room", "##start", "##end"}

\* the first line that is no "#" line is not a positive integer
BadAnts(text) ==
    LET data == {i \in 1..Len(text) : text[i].k \notin {"#", "##", "##start", "##end"}}
    IN  data = {} \/ text[Min(data)].k # "int" \/ text[Min(data)].a <= 0

Defective(text) ==
    \/ HasEmptyLine(text)
    \/ DuplicateRoom(text)
    \/ DuplicateLink(text)
    \/ SelfLink(text)
    \/ NotDesignated(text, StartLine)
    \/ NotDesignated(text, EndLine)
    \/ BadAnts(text)

\* Parse has returned a result
Parsed == pc \in {"parsed", "MultiPath"}

\* C17: an input with an empty line, a duplicate room, a duplicate link in
\* either orientation, a self-link, no designated start or end, or a
\* missing, non-integer or non-positive ant count makes Parse return an
\* error and no result, and main then prints only that error.
C17_DefectsRejected ==
    /\ Parsed => ~Defective(input)
    /\ pc \in {"parseError", "exit"} => (result.nil /\ pst.err # "")
    /\ pc = "exit" => (msg = pst.err /\ echo = <<>> /\ out = <<>>)

C17_Witness ==
    /\ pc = "exit"
    /\ msg = "ERROR: invalid data format, invalid link"
    /\ DuplicateLink(input)
    /\ ~SelfLink(input)
    /\ \E i \in 1..Len(input) : input[i].k = "link" /\ input[i].a > input[i].b

\* C18: an input in which ##start occurs more than once, or ##end occurs
\* more than once, makes Parse return an error, whatever lies between the
\* occurrences.
C18_RepeatedMarkerRejected ==
    Parsed => (Count(input, StartLine) =< 1 /\ Count(input, EndLine) =< 1)

\* the subsequence of comment lines
RECURSIVE OnlyComments(_)
OnlyComments(text) ==
    IF text = <<>> THEN <<>>
    ELSE IF Head(text) = CommentLine THEN <<Head(text)>> \o OnlyComments(Tail(text))
         ELSE OnlyComments(Tail(text))

\* C19 as stated: on a successful parse every comment line of the input is
\* in OriginalLines, at its place among the other lines, and the comments
\* change nothing else of the result.
C19_CommentsEchoed ==
    Parsed =>
        /\ OnlyComments(result.OriginalLines) = OnlyComments(input)
        /\ \A i \in 1..Len(input) :
              input[i] = CommentLine =>
                  \E j \in 1..Len(result.OriginalLines) :
                      /\ result.OriginalLines[j] = CommentLine
                      /\ WithoutComments(SubSeq(result.OriginalLines, 1, j - 1))
                            = WithoutComments(SubSeq(input, 1, i - 1))
        /\ result.Ants = Parse(WithoutComments(input)).Ants
        /\ result.Graph = Parse(WithoutComments(input)).Graph

\* C19 amended: on a successful parse no comment line is in OriginalLines,
\* which is the input without its comment lines, in order; and the comments
\* have no other effect: Parse ends as it does on the input without them.
C19_CommentsDropped ==
    /\ Parsed => result.OriginalLines = WithoutComments(input)
    /\ pc # "Parse" => pst = Parse(WithoutComments(input))

C19_Witness ==
    /\ Parsed
    /\ \E i \in 1..Len(input) :
          /\ input[i] = CommentLine
          /\ i > 1 /\ input[i - 1] \in {StartLine, EndLine}
          /\ i < Len(input) /\ input[i + 1].k = "room"
    /\ \E i \in 1..Len(input) : input[i].k = "link"

\* C20: whatever Parse has done to the graph so far, start and end differ
\* when both are set, b is in a.Links iff a is in b.Links, and no room
\* lists a neighbour twice or lists itself.
C20_GraphInvariants ==
    LET gr == pst.Graph IN
    /\ (gr.Start # NoRoom /\ gr.End # NoRoom) => gr.Start # gr.End
    /\ \A a, b \in Rooms(gr) : Linked(gr, a, b) <=> Linked(gr, b, a)
    /\ \A a \in Rooms(gr) :
          \A i, j \in 1..Len(gr.Links[a]) : i # j => gr.Links[a][i] # gr.Links[a][j]
    /\ \A a \in Rooms(gr) : ~Linked(gr, a, a)

C20_Witness ==
    /\ pc = "parseError"
    /\ pst.err = "ERROR: invalid data format, invalid link"
    /\ pst.Graph.Start # NoRoom
    /\ pst.Graph.End # NoRoom
    /\ \E a, b \in Rooms(pst.Graph) : Linked(pst.Graph, a, b)

\* C21 as stated: AddRoom reports a failure to its caller (hands back no
\* room) whenever a room of the given name is already present.
C21_AddRoomFailsOnDuplicate ==
    (call.op = "AddRoom" /\ call.a \in Rooms(call.before)) => call.room = NoRoom

\* C21 amended: AddRoom never fails.  For a name already present it hands
\* back the room of that name and leaves the room set and every neighbour
\* list as they were; for a new name it adds one room without neighbours
\* and changes nothing else.
C21_AddRoomReturnsExisting ==
    call.op = "AddRoom" =>
        LET gr == call.before IN
        /\ call.room = call.a
        /\ call.a \in Rooms(gr) => g = gr
        /\ call.a \notin Rooms(gr) =>
              /\ Rooms(g) = Rooms(gr) \cup {call.a}
              /\ g.n = gr.n + 1
              /\ g.Links[call.a] = <<>>
              /\ \A r \in Rooms(gr) : g.Links[r] = gr.Links[r]
              /\ g.Start = gr.Start /\ g.End = gr.End

C21_Witness ==
    /\ call.op = "AddRoom"
    /\ call.a \in Rooms(call.before)
    /\ call.before.Links[call.a] # <<>>
    /\ g.Links[call.a] # <<>>

\* C22: AddLink(a, b) returns false exactly when a or b is no known room,
\* a = b, or the link is already there in either orientation, and then
\* changes nothing; when it returns true it has appended b to a's list and
\* a to b's list and changed nothing else.
C22_AddLinkContract ==
    call.op = "AddLink" =>
        LET gr == call.before
            a == call.a
            b == call.b
            known == a \in Rooms(gr) /\ b \in Rooms(gr)
            fails == \/ ~known
                     \/ a = b
                     \/ Linked(gr, a, b)
                     \/ Linked(gr, b, a)
        IN  /\ call.ok <=> ~fails
            /\ ~call.ok => g = gr
            /\ call.ok =>
                  /\ g.Links[a] = Append(gr.Links[a], b)
                  /\ g.Links[b] = Append(gr.Links[b], a)
                  /\ Rooms(g) = Rooms(gr)
                  /\ \A r \in Rooms(gr) \ {a, b} : g.Links[r] = gr.Links[r]
                  /\ g.n = gr.n /\ g.Start = gr.Start /\ g.End = gr.End

C22_Witness ==
    /\ call.op = "AddLink"
    /\ ~call.ok
    /\ call.a # call.b
    /\ call.a \in Rooms(g) /\ call.b \in Rooms(g)
    /\ Linked(call.before, call.b, call.a)
    /\ Rooms(g) = ApiNames

\* the room lines after line i of the input
RoomLinesAfter(text, i) == {j \in (i + 1)..Len(text) : text[j].k = "room"}

\* C23: on a successful parse every ##start line has a room line after it
\* and the first such room is the graph's start room, and likewise every
\* ##end line and the end room: no marker is dropped, and none is replaced
\* by a later marker before a room line consumes it.
C23_MarkerDesignatesNextRoom ==
    Parsed =>
        \A i \in 1..Len(input) :
            input[i] \in {StartLine, EndLine} =>
                LET later == RoomLinesAfter(input, i) IN
                /\ later # {}
                /\ input[i] = StartLine => result.Graph.Start = input[Min(later)].a
                /\ input[i] = EndLine => result.Graph.End = input[Min(later)].a

RECURSIVE AugmentingPath(_, _, _)
AugmentingPath(par, v, source) ==
    IF v = source THEN <<>>
    ELSE <<[u |-> par[v].u, ei |-> par[v].ei]>> \o AugmentingPath(par, par[v].u, source)

\* flow leaving the source
SourceFlow == SumSeq([i \in 1..Len(graph[Source]) |-> graph[Source][i].flow])

\* C25: every augmentation of the Edmonds-Karp loop pushes exactly 1, so
\* totalFlow grows by 1 per iteration and is the flow leaving the source,
\* and no augmenting path goes over the INF edge start_in -> start_out or
\* end_in -> end_out.
C25_UnitAugmentations ==
    pc = "augment" =>
        LET r == bfs(graph, Source, Sink)
            found == r.par[Sink].u # -1
            hops == IF found THEN AugmentingPath(r.par, Sink, Source) ELSE <<>>
        IN  /\ r.pushed = (IF found THEN 1 ELSE 0)
            /\ totalFlow = SourceFlow
            /\ \A k \in 1..Len(hops) :
                  LET e == graph[hops[k].u][hops[k].ei + 1] IN
                  /\ e.cap # INF
                  /\ ~(hops[k].u = inIdx(g.Start) /\ e.to = outIdx(g.Start))
                  /\ ~(hops[k].u = inIdx(g.End) /\ e.to = outIdx(g.End))

C25_Witness ==
    /\ pc = "augment"
    /\ totalFlow >= 1
    /\ LET r == bfs(graph, Source, Sink) IN
       /\ r.pushed = 1
       /\ \E k \in 1..Len(AugmentingPath(r.par, Sink, Source)) :
             LET h == AugmentingPath(r.par, Sink, Source)[k]
             IN  graph[h.u][h.ei + 1].cap = 0

\* the forward half-edges (cap > 0) as [u, i]: half-edge i of node u
ForwardEdges == {h \in UNION {{[u |-> u, i |-> i] : i \in 1..Len(graph[u])} : u \in DOMAIN graph} :
                    graph[h.u][h.i].cap > 0}

\* flow into v: over the half-edges of v that are the reverse of a forward
\* half-edge into v, the flow of that forward half-edge
Inflow(v) ==
    SumSeq([k \in 1..Len(graph[v]) |->
               IF graph[v][k].cap = 0 THEN graph[graph[v][k].to][graph[v][k].rev + 1].flow ELSE 0])

\* flow out of v: over the forward half-edges of v
Outflow(v) ==
    SumSeq([k \in 1..Len(graph[v]) |-> IF graph[v][k].cap > 0 THEN graph[v][k].flow ELSE 0])

\* C26: at every step of MultiPath each half-edge and the half-edge its rev
\* index names point at each other and carry opposite flows, one of the two
\* is the forward one (cap > 0) with 0 <= flow <= cap; and after every
\* augmentation, and again after every traced path, the flow into every split
\* node other than source and sink equals the flow out of it.
C26_ResidualConsistent ==
    /\ \A u \in DOMAIN graph : \A i \in 1..Len(graph[u]) :
          LET e == graph[u][i]
              re == graph[e.to][e.rev + 1]
          IN  /\ e.rev + 1 \in 1..Len(graph[e.to])
              /\ re.to = u
              /\ re.rev = i - 1
              /\ re.flow = -e.flow
              /\ (e.cap > 0) # (re.cap > 0)
              /\ e.cap > 0 => (0 <= e.flow /\ e.flow <= e.cap)
              /\ e.cap = 0 => e.flow <= 0
    /\ pc \in {"augment", "trace"} =>
          \A v \in DOMAIN graph \ {Source, Sink} :
              Inflow(v) = Outflow(v)

C26_Witness ==
    /\ pc = "walkOut"
    /\ totalFlow >= 2
    /\ Len(paths) >= 1
    /\ \E h \in ForwardEdges : graph[h.u][h.i].flow = 1
    /\ \E h \in ForwardEdges : graph[h.u][h.i].cap = 1 /\ graph[h.u][h.i].flow = 0

\* C27: while a path is traced, every consume call after the one at the
\* source succeeds: the trace stands on a room's in node when it crosses the
\* room and on its out node when it follows a link, it leaves the loop only
\* at the sink end_in, and every published path is a complete start->end walk.
C27_TraceNeverBails ==
    /\ pc = "walk" => (cur % 2 = 0 /\ cur # Sink /\ consumeFlowAlong(graph, cur).ok)
    /\ pc = "walkOut" => (cur % 2 = 1 /\ consumeFlowAlong(graph, cur).ok)
    /\ pc = "publish" => cur = Sink
    /\ \A i \in 1..Len(paths) :
          LET rooms == paths[i].Rooms IN
          /\ rooms[1] = g.Start
          /\ rooms[Len(rooms)] = g.End
          /\ \A k \in 1..(Len(rooms) - 1) : Linked(g, rooms[k], rooms[k + 1])

C27_Witness ==
    /\ pc = "publish"
    /\ cur = Sink
    /\ Len(namePath) >= 3
    /\ Len(paths) >= 1
    /\ maxPaths = 0

\* the path ant a was assigned to, and a's place in that path's queue
AssignedPath(a) ==
    CHOOSE i \in 1..Len(counts) : \E k \in 1..counts[i] : Assigned(counts)[i][k] = a

\* the ants assigned to the same path, pairwise
SamePath(a, b) == AssignedPath(a) = AssignedPath(b)

\* the lines in which ant a moves, and in which it moves into room r
MoveTurns(a) == {t \in 1..Len(out) : \E k \in 1..Len(out[t]) : out[t][k].ant = a}
TurnsInto(a, r) == {t \in 1..Len(out) : \E k \in 1..Len(out[t]) : out[t][k] = Move(a, r)}

Dispatched(a) == MoveTurns(a) # {}
Arrived(a) == TurnsInto(a, g.End) # {}

IsIncreasing(q) == \A i, j \in 1..Len(q) : i < j => q[i] < q[j]

\* C28: ants of one path never overtake one another: each queue hands its
\* ants out in increasing id order, at a turn boundary an earlier-dispatched
\* ant stands strictly further along the path than a later-dispatched ant
\* that is in flight, and the ants of a path enter the end room in the
\* order of their dispatch.
C28_NoOvertaking ==
    (InRun /\ TurnBoundary) =>
        /\ \A i \in 1..Len(waitQueues) :
              /\ IsIncreasing(waitQueues[i])
              /\ \A a \in 1..ants :
                    (AssignedPath(a) = i /\ Dispatched(a)) =>
                        \A k \in 1..Len(waitQueues[i]) : a < waitQueues[i][k]
        /\ \A a, b \in 1..ants :
              (a < b /\ SamePath(a, b) /\ Dispatched(b)) =>
                  /\ Dispatched(a)
                  /\ Min(MoveTurns(a)) < Min(MoveTurns(b))
        /\ \A a, b \in DOMAIN antsState :
              (a < b /\ antsState[a].PathIdx = antsState[b].PathIdx
                     /\ antsState[b].Pos < paths[antsState[b].PathIdx].Length) =>
                  antsState[a].Pos > antsState[b].Pos
        /\ \A a, b \in 1..ants :
              (a < b /\ SamePath(a, b) /\ Arrived(b)) =>
                  /\ Arrived(a)
                  /\ Max(TurnsInto(a, g.End)) < Min(TurnsInto(b, g.End))

C28_Witness ==
    /\ pc = "turn"
    /\ \E a, b, c \in DOMAIN antsState :
          /\ a < b /\ b < c
          /\ antsState[a].PathIdx = antsState[b].PathIdx
          /\ antsState[b].PathIdx = antsState[c].PathIdx
          /\ Arrived(a)
          /\ ~Arrived(b)
          /\ antsState[b].Pos > antsState[c].Pos
    /\ \E i \in 1..Len(waitQueues) : waitQueues[i] # <<>>

\* the lines printed so far together with the line of the turn in progress
LinesSoFar == IF pc \in {"dispatch", "emit"} THEN Append(out, moves) ELSE out

\* C29: on disjoint paths the pipeline never stalls: a path with ants left
\* in its queue dispatches exactly one of them every turn, so the k-th ant of
\* a path of length L leaves in turn k, enters the j-th room after start in
\* turn k + j - 1 and the end room in turn k + L - 1, and a path carrying x
\* ants sees its last ant arrive in turn (L - 1) + x.
C29_PipelineNeverStalls ==
    (InRun /\ TurnBoundary) =>
        \A i \in 1..Len(paths) :
            LET L == paths[i].Length
                x == counts[i]
            IN  /\ Len(waitQueues[i]) = Max({0, x - Len(out)})
                /\ \A k \in 1..x :
                      LET a == Assigned(counts)[i][k] IN
                      /\ \A j \in 1..L :
                            k + j - 1 <= Len(out) => TurnsInto(a, paths[i].Rooms[j + 1]) = {k + j - 1}
                      /\ MoveTurns(a) \subseteq k..(k + L - 1)
                /\ (pc = "done" /\ x > 0) =>
                      /\ TurnsInto(Assigned(counts)[i][x], g.End) = {(L - 1) + x}
                      /\ \A a \in 1..ants :
                            AssignedPath(a) = i => Max(MoveTurns(a)) <= (L - 1) + x

C29_Witness ==
    /\ pc = "done"
    /\ \E i, j \in 1..Len(paths) :
          /\ i # j
          /\ counts[i] >= 2 /\ paths[i].Length >= 3
          /\ counts[j] >= 1 /\ paths[j].Length # paths[i].Length
          /\ TurnsInto(Assigned(counts)[i][counts[i]], g.End) = {(paths[i].Length - 1) + counts[i]}

\* the rooms ant a has moved into, line after line
RECURSIVE RoomsEntered(_, _)
RoomsEntered(a, lines) ==
    IF lines = <<>> THEN <<>>
    ELSE LET line == Head(lines)
             mine == {k \in 1..Len(line) : line[k].ant = a}
         IN  (IF mine = {} THEN <<>> ELSE <<line[Min(mine)].room>>)
                 \o RoomsEntered(a, Tail(lines))

\* C30: in every line an ant moves at most once; the n-th move of an ant is
\* from the n-th to the (n+1)-th room of its assigned path, so never back and
\* never off the path; and an ant that has entered the end room moves no more.
C30_OneStepAlongPath ==
    InRun =>
        \A a \in 1..ants :
            LET rooms == paths[AssignedPath(a)].Rooms
                entered == RoomsEntered(a, LinesSoFar)
            IN  /\ \A t \in 1..Len(LinesSoFar) :
                      Cardinality({k \in 1..Len(LinesSoFar[t]) : LinesSoFar[t][k].ant = a}) <= 1
                /\ Len(entered) <= Len(rooms) - 1
                /\ \A n \in 1..Len(entered) : entered[n] = rooms[n + 1]
                /\ a \in DOMAIN antsState =>
                      /\ antsState[a].PathIdx = AssignedPath(a)
                      /\ antsState[a].Pos = Len(entered)

C30_Witness ==
    /\ pc = "emit"
    /\ Len(moves) >= 3
    /\ \E a \in DOMAIN antsState :
          /\ Arrived(a)
          /\ Len(paths[antsState[a].PathIdx].Rooms) >= 4
          /\ Len(out) >= Max(TurnsInto(a, g.End))
          /\ \A k \in 1..Len(moves) : moves[k].ant # a
    /\ \E a \in DOMAIN antsState : antsState[a].Pos = 2 /\ ~Arrived(a)

\* the ants standing in an intermediate room: dispatched, not yet in the end room
InFlight == {a \in DOMAIN antsState : 0 < antsState[a].Pos /\ antsState[a].Pos < paths[antsState[a].PathIdx].Length}

\* C31: the occupancy table never holds a non-zero entry for the start or the
\* end room, and at every turn boundary an intermediate room r has
\* occupied[r] = id exactly when ant id is in flight at r, and 0 otherwise.
C31_OccupancyAgrees ==
    InRun =>
        /\ occupied[g.Start] = 0
        /\ occupied[g.End] = 0
        /\ TurnBoundary =>
              \A r \in Rooms(g) \ {g.Start, g.End} :
                  /\ \A a \in 1..ants : occupied[r] = a <=> (a \in InFlight /\ RoomOf(a) = r)
                  /\ occupied[r] = 0 <=> ~ \E a \in InFlight : RoomOf(a) = r

C31_Witness ==
    /\ pc = "turn"
    /\ finished >= 1
    /\ Cardinality(InFlight) >= 2
    /\ \E a \in InFlight : antsState[a].Pos >= 2 /\ occupied[RoomOf(a)] = a
    /\ \E r \in Rooms(g) \ {g.Start, g.End} :
          /\ occupied[r] = 0
          /\ \E t \in 1..Len(out) : \E k \in 1..Len(out[t]) : out[t][k].room = r


\* C33: the clamped first pass of the balancer alone assigns all N ants: the
\* remaining-ants counter is 0 when the leftover loop is reached, the loop
\* leaves the counts of the first pass unchanged, and no path receives more
\* than max(0, T - (L_i - 1)) ants.
C33_FirstPassAssignsAll ==
    InRun =>
        LET fp == FirstPass(Lens(paths), T, ants, <<>>)
        IN  /\ fp.remain = 0
            /\ counts = fp.counts
            /\ Leftovers(fp.counts, fp.remain, 1) = fp.counts
            /\ \A i \in 1..Len(counts) : counts[i] =< Max({0, T - (paths[i].Length - 1)})

\* the clamp has cut a path's share: T overshoots N
C33_Witness ==
    /\ InRun
    /\ Len(paths) >= 2
    /\ Capacity(Lens(paths), T) > ants
    /\ \E i \in 1..Len(counts) : 0 < counts[i] /\ counts[i] < T - (paths[i].Length - 1)
    /\ \E i \in 1..Len(counts) : counts[i] >= 2


\* C35: in every state of Run the ant-state map contains only in-flight
\* ants: an ant is in the map exactly while it has been dispatched and has
\* not yet entered the end room, its position strictly between 0 and the
\* length of its path.
C35_OnlyInFlightAnts ==
    InRun =>
        \A a \in 1..ants :
            LET entered == RoomsEntered(a, LinesSoFar)
            IN  a \in DOMAIN antsState <=>
                    /\ entered # <<>>
                    /\ entered[Len(entered)] # g.End
                    /\ 0 < antsState[a].Pos
                    /\ antsState[a].Pos < paths[antsState[a].PathIdx].Length


\* the residual graph when the Edmonds-Karp loop ends, maxPaths = 0
RECURSIVE EdmondsKarp(_)
EdmondsKarp(gr) ==
    LET r == bfs(gr, Source, Sink) IN IF r.pushed = 0 THEN gr ELSE EdmondsKarp(r.graph)

\* half-edge u -> v crosses a room of path p or follows one of its links
OnPath(u, v, p) ==
    \/ \E k \in 2..(Len(p.Rooms) - 1) : u = inIdx(p.Rooms[k]) /\ v = outIdx(p.Rooms[k])
    \/ \E k \in 1..(Len(p.Rooms) - 1) : u = outIdx(p.Rooms[k]) /\ v = inIdx(p.Rooms[k + 1])

\* C34 as stated: with maxPaths = 0, after the reconstruction loop no
\* half-edge has flow > 0.
C34_NoFlowLeft ==
    (pc = "returned" /\ maxPaths = 0 /\ graph # <<>>) =>
        \A u \in DOMAIN graph : \A i \in 1..Len(graph[u]) : graph[u][i].flow <= 0

\* C34 amended: with maxPaths = 0, reconstruction consumes every unit of
\* flow that leaves the source: between two traces and after the last one, a
\* half-edge that carried positive flow when the Edmonds-Karp loop ended has
\* no flow left exactly when it lies on one of the reconstructed paths, and no
\* other half-edge has got flow; after the loop no half-edge out of the
\* source or into the sink has flow > 0, and the flow that is left has equal
\* inflow and outflow at every node: it consists of cycles detached from the
\* paths.
C34_SourceFlowConsumed ==
    (pc \in {"trace", "returned"} /\ maxPaths = 0 /\ graph # <<>>) =>
        LET final == EdmondsKarp(BuildResidual(g)) IN
        /\ \A u \in DOMAIN graph : \A i \in 1..Len(graph[u]) :
              LET e == graph[u][i]
                  traced == \E k \in 1..Len(paths) : OnPath(u, e.to, paths[k])
              IN  e.cap > 0 =>
                     /\ e.flow = (IF traced THEN 0 ELSE final[u][i].flow)
                     /\ traced => final[u][i].flow = 1
        /\ pc = "returned" =>
              /\ Len(paths) = totalFlow
              /\ Outflow(Source) = 0
              /\ Inflow(Sink) = 0
              /\ \A v \in DOMAIN graph : Inflow(v) = Outflow(v)

\* two paths are returned and a cycle of flow through two rooms is left
C34_Witness ==
    /\ pc = "returned"
    /\ maxPaths = 0
    /\ Len(paths) = 2
    /\ \E a, b \in Intermediate(g) :
          /\ a # b
          /\ \A k \in 1..Len(paths) : a \notin Range(paths[k].Rooms) /\ b \notin Range(paths[k].Rooms)
          /\ \E i \in 1..Len(graph[outIdx(a)]) :
                graph[outIdx(a)][i].to = inIdx(b) /\ graph[outIdx(a)][i].flow = 1
          /\ \E i \in 1..Len(graph[outIdx(b)]) :
                graph[outIdx(b)][i].to = inIdx(a) /\ graph[outIdx(b)][i].flow = 1


\* C32: the paths MultiPath returns and the move lines Run prints depend
\* only on the set of rooms, the set of links, the start/end designation and
\* N: the run on a second input that declares the same links in another
\* order, or with endpoints swapped, returns the same path list, prints the
\* same move lines and the same error line as the run on the first input.
C32_OrderIndependent ==
    (firstRun # NoFirst /\ pc = firstRun.pc /\ (pc = "done" => ants = firstRun.ants)) =>
        /\ Rooms(g) = Rooms(firstRun.g)
        /\ LinksOf(g) = LinksOf(firstRun.g)
        /\ g.Start = firstRun.g.Start /\ g.End = firstRun.g.End
        /\ maxPaths = firstRun.maxPaths
        /\ paths = firstRun.paths
        /\ out = firstRun.out
        /\ msg = firstRun.msg

C32_Witness ==
    /\ firstRun.pc = "done"
    /\ pc = "done"
    /\ ants = firstRun.ants
    /\ ants >= 2
    /\ g.Links # firstRun.g.Links
    /\ Len(paths) >= 2
    /\ \E i \in 1..Len(paths) : paths[i].Length >= 3
    /\ Len(out) >= 2
    /\ out = firstRun.out


=============================================================================
